---- MODULE Spec2Model ----
(***************************************************************************)
(* A model of the question-answering pipeline of ai-agent-platform:        *)
(*   - the document registry (shared/utils/document_manager.py),           *)
(*   - the retrieval agent and the orchestrator that drive it              *)
(*     (agents/zhiku/llm/retrieval_agent.py, dual_agent_orchestrator.py),  *)
(*   - the endpoint that turns the orchestrator's events into the wire     *)
(*     stream (agents/zhiku/api/endpoints.py, protocols/java_protocol.py). *)
(*   - the planning and summary agents (agents/zhiku/llm/planning_agent.py,*)
(*     summary_agent.py).                                                  *)
(* RegSpec exercises the registry on its own, FunSpec the pure functions,  *)
(* SumSpec the summary stage; Spec runs the pipeline.                      *)
(***************************************************************************)
EXTENDS Integers, Sequences, FiniteSets, TLC

VARIABLES
    documents,      \* DocumentManager.documents: the stored Document objects, in list order
    doc_hash_map,   \* DocumentManager.doc_hash_map: hash -> index
    op,             \* the registry call made last: [name, arg]
    ret,            \* what that call returned
    firstRet,       \* history: identity key -> what the first add_document of that key returned
    run,            \* how many requests the module-level orchestrator has taken so far
    pc,             \* where DualAgentOrchestrator.process stands in the request in flight
    events,         \* the events process() has yielded for that request, in order
    plan,           \* process(): plan
    tasks,          \* retrieve_with_plan_parallel: all_tasks, each with its collected events
    finished,       \* the task ids in the order the tasks completed (asyncio.as_completed)
    yielded,        \* how many completed tasks have had their events yielded
    doc_count,      \* process(): doc_count
    web_queue,      \* process(): the queries of web_search_plan still to run, in loop order
    retrieved,      \* history: the identity keys of the hits returned to this request's queries
    agent_events,   \* the events retrieve_with_plan_parallel has yielded to process(), in order
    wire,           \* the messages generate_events has yielded for that request, in order
    planner,        \* history: what the awaited planner call of this request did
    summary         \* SummaryAgent.summarize: its local variables while it runs

regvars == <<documents, doc_hash_map, op, ret, firstRet>>

pipevars == <<run, pc, events, plan, tasks, finished, yielded, doc_count, web_queue, retrieved,
              agent_events, wire, planner, summary>>

vars == <<documents, doc_hash_map, op, ret, firstRet,
          run, pc, events, plan, tasks, finished, yielded, doc_count, web_queue, retrieved,
          agent_events, wire, planner, summary>>

-----------------------------------------------------------------------------
(* Python values *)

\* Python's None for the Optional[str] fields; no string of the model equals it.
None == "<None>"

\* bool(x) of an Optional[str]: None and "" are false.
Truthy(x) == x # None /\ x # ""

\* dict.get(k, default): the default only when the key is absent.
Get(m, k, default) == IF k \in DOMAIN m THEN m[k] ELSE default

\* doc.metadata.get("score", 0) if doc.metadata else 0
ScoreOf(doc) == IF DOMAIN doc.metadata = {} THEN 0 ELSE Get(doc.metadata, "score", 0)

\* doc.metadata.get("doc_id") if doc.metadata else None
DocIdOf(doc) == IF DOMAIN doc.metadata = {} THEN None ELSE Get(doc.metadata, "doc_id", None)

\* Document.__init__: index starts as None (written 0 here, no stored entry has it).
Document(content, source, knowledge_id, metadata) ==
    [content |-> content, source |-> source, knowledge_id |-> knowledge_id,
     metadata |-> metadata, index |-> 0]

-----------------------------------------------------------------------------
(* bounds *)

\* add_document of a new key is tried only while fewer than MaxDocs entries are stored.
MaxDocs == 3

\* The documents handed to the registry in RegSpec.  They cover: one chunk id
\* with two contents, one content without chunk id under two scores, an empty
\* chunk id, a chunk id that equals another item's content, items sharing a
\* parent document, tied scores, and metadata without a score.
DocPool ==
    { Document("a", "s1", "k1", [score |-> 2, doc_id |-> "A"]),
      Document("b", "s2", "k1", [score |-> 1, doc_id |-> "B"]),
      Document("a", "s3", "k2", [score |-> 1, doc_id |-> "A"]),
      Document("c", "s4", "k3", [score |-> 2, doc_id |-> "B"]),
      Document("a", "s5", None, [url |-> "u"]),
      Document("a", "s6", None, [score |-> 1, doc_id |-> None]),
      Document("b", "s7", "",   [score |-> 0, doc_id |-> ""]),
      Document("c", "s8", "a",  [score |-> 1, doc_id |-> "B"]) }

-----------------------------------------------------------------------------
(* DocumentManager *)

\* hashlib.md5(s.encode('utf-8')).hexdigest(): a digest that depends on the
\* text alone; on the short texts of the model distinct texts have distinct digests.
Md5(s) == "md5(" \o s \o ")"

\* (a hash of the content alone)
compute_hash_content(doc) == Md5(doc.content)

\* (a hash of the source label)
compute_hash_source(doc) == Md5(doc.source)

compute_hash(doc) ==
    Md5(IF Truthy(doc.knowledge_id) THEN doc.knowledge_id ELSE doc.content)

\* The manager as a value: [documents, doc_hash_map]; add_document also gives its result.
EmptyMap == [h \in {} |-> 0]

NewManager == [documents |-> <<>>, doc_hash_map |-> EmptyMap]

\* (an add that does not look the hash up)
add_document_nolookup(dm, doc) ==
    [documents |-> Append(dm.documents, [doc EXCEPT !.index = Len(dm.documents) + 1]),
     doc_hash_map |-> (compute_hash(doc) :> Len(dm.documents) + 1) @@ dm.doc_hash_map,
     index |-> Len(dm.documents) + 1]

add_document(dm, doc) ==
    LET doc_hash == compute_hash(doc) IN
    IF doc_hash \in DOMAIN dm.doc_hash_map
    THEN [documents |-> dm.documents, doc_hash_map |-> dm.doc_hash_map,
          index |-> dm.doc_hash_map[doc_hash]]
    ELSE LET index == Len(dm.documents) + 1 IN
         [documents |-> Append(dm.documents, [doc EXCEPT !.index = index]),
          doc_hash_map |-> (doc_hash :> index) @@ dm.doc_hash_map,
          index |-> index]

\* [self.add_document(doc) for doc in docs]
RECURSIVE add_documents(_, _)
add_documents(dm, docs) ==
    IF docs = <<>>
    THEN [documents |-> dm.documents, doc_hash_map |-> dm.doc_hash_map, index |-> <<>>]
    ELSE LET one  == add_document(dm, Head(docs))
             rest == add_documents(one, Tail(docs))
         IN  [rest EXCEPT !.index = <<one.index>> \o rest.index]

\* list.sort(key=K, reverse=True): non-increasing K, equal keys keep their order.
\* The element at i lands behind those with a larger key and those with an
\* equal key that stood before it.
\* key[i] is the sort key of s[i].
SortDesc(s, key) ==
    LET rank(i) == 1 + Cardinality({j \in 1..Len(s) :
                        key[j] > key[i] \/ (key[j] = key[i] /\ j < i)})
    IN  [r \in 1..Len(s) |-> s[CHOOSE i \in 1..Len(s) : rank(i) = r]]

\* for idx, doc in enumerate(self.documents, start=1): doc.index = idx
Reindex(docs) == [i \in 1..Len(docs) |-> [docs[i] EXCEPT !.index = i]]

\* key=lambda doc: doc.metadata.get(key, 0) if doc.metadata else 0, over the list
Scores(docs) == [i \in 1..Len(docs) |-> ScoreOf(docs[i])]

\* (a sort that puts the later of two equal scores first)
SortDescUnstable(s, key) ==
    LET rank(i) == 1 + Cardinality({j \in 1..Len(s) :
                        key[j] > key[i] \/ (key[j] = key[i] /\ j > i)})
    IN  [r \in 1..Len(s) |-> s[CHOOSE i \in 1..Len(s) : rank(i) = r]]

sort_documents_unstable(dm) ==
    [documents |-> Reindex(SortDescUnstable(dm.documents, Scores(dm.documents))),
     doc_hash_map |-> dm.doc_hash_map]

\* (a sort that does not renumber)
sort_documents_noreindex(dm) ==
    [documents |-> SortDesc(dm.documents, Scores(dm.documents)),
     doc_hash_map |-> dm.doc_hash_map]

\* sort_documents(key="score", reverse=True); doc_hash_map is left as it is.
sort_documents(dm) ==
    [documents |-> Reindex(SortDesc(dm.documents, Scores(dm.documents))),
     doc_hash_map |-> dm.doc_hash_map]

\* s[:n]
Take(s, n) == SubSeq(s, 1, IF n < Len(s) THEN n ELSE Len(s))

\* doc.content[:100] + "..." if len(doc.content) > 100 else doc.content
PreviewLen == 100

Preview(content) ==
    IF Len(content) > PreviewLen THEN SubSeq(content, 1, PreviewLen) \o "..." ELSE content

\* if current_score > doc_groups[doc_id]["max_score"]: ... = current_score
MaxScoreFirst(max_score, current_score) == max_score

MaxScore(max_score, current_score) ==
    IF current_score > max_score THEN current_score ELSE max_score

\* The loop of get_references over docs_to_process.  doc_groups is the dict,
\* kept in insertion order (the order of first occurrence of each doc_id).
RECURSIVE GroupDocs(_, _, _)
GroupDocs(docs, doc_groups, no_doc_id_items) ==
    IF docs = <<>>
    THEN [doc_groups |-> doc_groups, no_doc_id_items |-> no_doc_id_items]
    ELSE
    LET doc == Head(docs)
        doc_id == DocIdOf(doc)
        current_score == ScoreOf(doc)
        kb_id == IF DOMAIN doc.metadata = {} THEN None
                 ELSE Get(doc.metadata, "knowledge_base_id", None)
        kb_name == IF DOMAIN doc.metadata = {} THEN None
                   ELSE Get(doc.metadata, "knowledge_base_name", None)
    IN  IF Truthy(doc_id)
        THEN LET known == \E i \in 1..Len(doc_groups) : doc_groups[i].doc_id = doc_id
                 started ==
                     IF known THEN doc_groups
                     ELSE Append(doc_groups,
                            [doc_id |-> doc_id,
                             source |-> doc.source,
                             max_score |-> current_score,
                             doc_url |-> Get(doc.metadata, "doc_url", None),
                             knowledge_base_id |-> kb_id,
                             knowledge_base_name |-> kb_name,
                             chunks |-> <<>>])
                 g == CHOOSE i \in 1..Len(started) : started[i].doc_id = doc_id
                 chunk == [chunk_id |-> doc.knowledge_id,
                           score |-> current_score,
                           content_preview |-> Preview(doc.content)]
             IN  GroupDocs(Tail(docs),
                           [started EXCEPT ![g].max_score = MaxScore(@, current_score),
                                           ![g].chunks = Append(@, chunk)],
                           no_doc_id_items)
        ELSE GroupDocs(Tail(docs), doc_groups,
                       Append(no_doc_id_items,
                            [chunk_id |-> doc.knowledge_id,
                             source |-> doc.source,
                             score |-> current_score,
                             content_preview |-> Preview(doc.content),
                             knowledge_base_id |-> kb_id,
                             knowledge_base_name |-> kb_name]))

RefMaxScore(ref) == ref.max_score

ItemScore(item) == item.score

\* references.sort(key=lambda x: x["max_score"], reverse=True)
KeepOrder(references) == references

SortReferences(references) == SortDesc(references, [i \in 1..Len(references) |-> RefMaxScore(references[i])])

\* no_doc_id_items.sort(key=lambda x: x["score"], reverse=True)
SortItems(items) == SortDesc(items, [i \in 1..Len(items) |-> ItemScore(items[i])])

\* docs_to_process = self.documents[:max_docs] if max_docs else self.documents
\* max_docs = 0 stands for None too: the code takes both for "no limit".
DocsToProcess(docs, max_docs) == IF max_docs # 0 THEN Take(docs, max_docs) ELSE docs

get_references(dm, max_docs) ==
    LET grouped == GroupDocs(DocsToProcess(dm.documents, max_docs), <<>>, <<>>)
        references == SortReferences(grouped.doc_groups)
        items == SortItems(grouped.no_doc_id_items)
        numbered ==
            [i \in 1..Len(references) |->
                [doc_id |-> references[i].doc_id,
                 source |-> references[i].source,
                 max_score |-> references[i].max_score,
                 doc_url |-> references[i].doc_url,
                 knowledge_base_id |-> references[i].knowledge_base_id,
                 knowledge_base_name |-> references[i].knowledge_base_name,
                 chunks |-> references[i].chunks,
                 id |-> i,
                 title |-> references[i].source,
                 chunk_count |-> Len(references[i].chunks)]]
        singles ==
            [i \in 1..Len(items) |->
                [chunk_id |-> items[i].chunk_id,
                 source |-> items[i].source,
                 score |-> items[i].score,
                 content_preview |-> items[i].content_preview,
                 knowledge_base_id |-> items[i].knowledge_base_id,
                 knowledge_base_name |-> items[i].knowledge_base_name,
                 id |-> Len(references) + i,
                 title |-> items[i].source]]
    IN  numbered \o singles

\* The context string, as the sequence of its blocks
\* "[index] 来源：source\n内容：content" (joined by a blank line; no block
\* for the empty string): those of the first max_docs entries, of all of
\* them for a max_docs that is None or 0
get_context_for_llm(dm, max_docs) ==
    LET docs_to_use == DocsToProcess(dm.documents, max_docs)
    IN  [i \in 1..Len(docs_to_use) |->
            [index |-> docs_to_use[i].index, source |-> docs_to_use[i].source,
             content |-> docs_to_use[i].content]]

-----------------------------------------------------------------------------
(* RegSpec: any sequence of registry calls *)

Manager == [documents |-> documents, doc_hash_map |-> doc_hash_map]

\* No request in flight: the state of the module-level orchestrator after import.
PipeIdle ==
    /\ run = 0
    /\ pc = "idle"
    /\ events = <<>>
    /\ plan = None
    /\ tasks = <<>>
    /\ finished = <<>>
    /\ yielded = 0
    /\ doc_count = 0
    /\ web_queue = <<>>
    /\ retrieved = {}
    /\ agent_events = <<>>
    /\ wire = <<>>
    /\ planner = None
    /\ summary = None

RegInit ==
    /\ documents = <<>>
    /\ doc_hash_map = EmptyMap
    /\ op = [name |-> "init", arg |-> None]
    /\ ret = None
    /\ firstRet = EmptyMap
    /\ PipeIdle

NoteFirst(fr, doc, index) ==
    LET k == IF Truthy(doc.knowledge_id) THEN doc.knowledge_id ELSE doc.content
    IN  IF k \in DOMAIN fr THEN fr ELSE (k :> index) @@ fr

AddDocument(doc) ==
    /\ compute_hash(doc) \in DOMAIN doc_hash_map \/ Len(documents) < MaxDocs
    /\ LET r == add_document(Manager, doc) IN
        /\ documents' = r.documents
        /\ doc_hash_map' = r.doc_hash_map
        /\ ret' = r.index
        /\ firstRet' = NoteFirst(firstRet, doc, r.index)
    /\ op' = [name |-> "add_document", arg |-> doc]
    /\ UNCHANGED pipevars

SortDocuments ==
    /\ LET r == sort_documents(Manager) IN
        /\ documents' = r.documents
        /\ doc_hash_map' = r.doc_hash_map
    /\ op' = [name |-> "sort_documents", arg |-> None]
    /\ ret' = None
    /\ UNCHANGED <<firstRet, pipevars>>

\* add_documents with a batch of two
AddDocuments(docs) ==
    /\ LET r == add_documents(Manager, docs) IN
        /\ Len(r.documents) <= MaxDocs
        /\ documents' = r.documents
        /\ doc_hash_map' = r.doc_hash_map
        /\ ret' = r.index
        /\ firstRet' = NoteFirst(NoteFirst(firstRet, docs[1], r.index[1]), docs[2], r.index[2])
    /\ op' = [name |-> "add_documents", arg |-> docs]
    /\ UNCHANGED pipevars

\* (a get_references that sorts the registry before it reads it)
GetReferencesSorting(max_docs) ==
    /\ LET r == sort_documents(Manager) IN
        /\ documents' = r.documents
        /\ doc_hash_map' = r.doc_hash_map
        /\ ret' = get_references(r, max_docs)
    /\ op' = [name |-> "get_references", arg |-> max_docs]
    /\ UNCHANGED <<firstRet, pipevars>>

GetReferences(max_docs) ==
    /\ ret' = get_references(Manager, max_docs)
    /\ op' = [name |-> "get_references", arg |-> max_docs]
    /\ UNCHANGED <<documents, doc_hash_map, firstRet, pipevars>>

GetContextForLlm(max_docs) ==
    /\ ret' = get_context_for_llm(Manager, max_docs)
    /\ op' = [name |-> "get_context_for_llm", arg |-> max_docs]
    /\ UNCHANGED <<documents, doc_hash_map, firstRet, pipevars>>

RegNext ==
    \/ \E doc \in DocPool : AddDocument(doc)
    \/ \E d1, d2 \in DocPool : AddDocuments(<<d1, d2>>)
    \/ SortDocuments
    \/ \E max_docs \in 0..(MaxDocs + 1) : GetReferences(max_docs)
    \/ \E max_docs \in 0..(MaxDocs + 1) : GetContextForLlm(max_docs)

RegSpec == RegInit /\ [][RegNext]_vars

-----------------------------------------------------------------------------
(* The registry's properties, checked under RegSpec *)

\* The identity key of an item: its chunk identifier when it has one, else its content.
IdentityKey(doc) == IF Truthy(doc.knowledge_id) THEN doc.knowledge_id ELSE doc.content

Stored(docs, k) == \E i \in 1..Len(docs) : IdentityKey(docs[i]) = k

PosOf(docs, k) == CHOOSE i \in 1..Len(docs) : IdentityKey(docs[i]) = k

\* The position at which the entry now at i was inserted.
InsertedAt(i) == doc_hash_map[compute_hash(documents[i])]

\* C1: after any sequence of add_document / add_documents / sort_documents
\* calls no two stored entries have the same identity key.
C1_UniqueKeys ==
    \A i, j \in 1..Len(documents) :
        i # j => IdentityKey(documents[i]) # IdentityKey(documents[j])

\* C1's case: an item was added whose key was stored under another content,
\* and the registry has been sorted into another order since the inserts.
C1_Witness ==
    /\ op.name = "add_document"
    /\ \E i \in 1..Len(documents) :
          /\ IdentityKey(documents[i]) = IdentityKey(op.arg)
          /\ documents[i].content # op.arg.content
    /\ \E i \in 1..Len(documents) : InsertedAt(i) # i

\* C2: an add_document of a stored key returns what the first add of that key
\* returned and leaves the entries as they were; an add_document of a new key
\* appends the item at position length+1 and returns that position.
C2_IdempotentAdd ==
    [][op'.name = "add_document" =>
        LET doc == op'.arg
            k == IdentityKey(doc)
        IN  IF Stored(documents, k)
            THEN /\ documents' = documents
                 /\ ret' = firstRet[k]
            ELSE /\ documents' = Append(documents, [doc EXCEPT !.index = Len(documents) + 1])
                 /\ ret' = Len(documents) + 1]_regvars

\* C2's case: a second add of a chunk-identified key, under another content,
\* returned the first add's position.
C2_Witness ==
    /\ op.name = "add_document"
    /\ Truthy(op.arg.knowledge_id)
    /\ \E i \in 1..Len(documents) :
          /\ IdentityKey(documents[i]) = IdentityKey(op.arg)
          /\ documents[i].content # op.arg.content
          /\ ret = firstRet[IdentityKey(op.arg)]
    /\ Len(documents) >= 2

Covered(max_docs) ==
    IF max_docs = 0 THEN documents
    ELSE [i \in 1..(IF max_docs < Len(documents) THEN max_docs ELSE Len(documents))
            |-> documents[i]]

Members(docs, doc_id) == {i \in 1..Len(docs) : DocIdOf(docs[i]) = doc_id}

Orphans(docs) == {i \in 1..Len(docs) : ~Truthy(DocIdOf(docs[i]))}

Parents(docs) == {DocIdOf(docs[i]) : i \in 1..Len(docs)} \ {None, ""}

IsGroup(ref) == "chunks" \in DOMAIN ref

C6_ReferenceOrder ==
    op.name = "get_references" =>
        /\ \A i \in 1..Len(ret) : ret[i].id = i
        /\ \A i, j \in 1..Len(ret) :
              (i < j /\ IsGroup(ret[j])) => IsGroup(ret[i])
        /\ \A i, j \in 1..Len(ret) :
              (i < j /\ IsGroup(ret[i]) /\ IsGroup(ret[j]))
                  => ret[i].max_score >= ret[j].max_score
        /\ \A i, j \in 1..Len(ret) :
              (i < j /\ ~IsGroup(ret[i]) /\ ~IsGroup(ret[j]))
                  => ret[i].score >= ret[j].score

\* C6's case: the registry is not in score order, and the list holds two
\* groups with different scores followed by a singleton.
C6_Witness ==
    /\ op.name = "get_references"
    /\ Len(ret) = 3
    /\ IsGroup(ret[1]) /\ IsGroup(ret[2]) /\ ~IsGroup(ret[3])
    /\ ret[1].max_score > ret[2].max_score
    /\ \E i, j \in 1..Len(documents) :
          i < j /\ ScoreOf(documents[i]) < ScoreOf(documents[j])

-----------------------------------------------------------------------------
(* The retrieval agent and the orchestrator.  endpoints.py holds one         *)
(* DualAgentOrchestrator for the whole process, and its RetrievalAgent one   *)
(* DocumentManager: documents and doc_hash_map above are that manager.       *)
(* Requests are taken one after the other.                                   *)

\* dual_agent_orchestrator.py: MAX_DOCS_FOR_SUMMARY
MAX_DOCS_FOR_SUMMARY == 5

\* retrieve_with_plan_parallel(..., max_queries_per_kb: int = 3)
max_queries_per_kb == 3

\* The orchestrator takes at most MaxRuns requests.
MaxRuns == 2

PlanItem(kb_id, kb_name, queries) ==
    [knowledge_base_id |-> kb_id, knowledge_base_name |-> kb_name,
     queries |-> queries, reason |-> "r"]

\* A query that the planning LLM wrote as a JSON number: plan() returns the
\* parsed JSON as it is, so the value reaches the tasks and the events.
IntQuery == "<123>"

\* Values that are not str: subscripting one of them (x[:30]) raises TypeError.
Subscriptable(x) == x # IntQuery

\* The keys retrieve_with_plan_parallel reads from a plan item with plan_item[...]
ItemKeys == {"knowledge_base_id", "knowledge_base_name", "queries"}

\* The JSON objects the planning LLM returns here: one source; two sources, one
\* of them with two queries; one source and a web-search section that asks
\* the same query twice; a plan with an empty retrieval_plan and an empty
\* web_search_plan; one source with more queries than max_queries_per_kb;
\* a plan whose second item lacks knowledge_base_name; a plan whose second
\* item has a number for a query.
Plans ==
    { [analysis |-> "n",
       retrieval_plan |-> <<PlanItem("kb1", "KB1", <<"q1">>)>>],
      [analysis |-> "n",
       retrieval_plan |-> <<PlanItem("kb1", "KB1", <<"q1", "q2">>),
                            PlanItem("kb2", "KB2", <<"q1">>)>>],
      [analysis |-> "n",
       retrieval_plan |-> <<PlanItem("kb1", "KB1", <<"q1">>)>>,
       web_search_plan |-> <<[queries |-> <<"w1", "w1">>, reason |-> "r"]>>],
      [analysis |-> "n",
       retrieval_plan |-> <<>>,
       web_search_plan |-> <<>>],
      [analysis |-> "n",
       retrieval_plan |-> <<PlanItem("kb1", "KB1", <<"q1", "q2", "q3", "q4">>)>>],
      [analysis |-> "n",
       retrieval_plan |-> <<PlanItem("kb1", "KB1", <<"q1">>),
                            [knowledge_base_id |-> "kb2", queries |-> <<"q1">>]>>],
      [analysis |-> "n",
       retrieval_plan |-> <<PlanItem("kb1", "KB1", <<"q1">>),
                            PlanItem("kb2", "KB2", <<IntQuery>>)>>] }

\* What an awaited tool call can do: raise, or return a result dict.
Raise == [raised |-> TRUE]

Return(result) == [raised |-> FALSE, result |-> result]

Failure == [success |-> FALSE, error |-> "e"]

Success(results) == [success |-> TRUE, results |-> results, count |-> Len(results)]

-----------------------------------------------------------------------------
(* PlanningAgent (agents/zhiku/llm/planning_agent.py) *)

\* KnowledgeBaseConfig: the fields plan() reads
KnowledgeBaseConfig(id, name) == [id |-> id, name |-> name]

\* _should_use_web_search: time_keywords, in the order of the source:
\* 最新 近期 今年 最近 当前 2024 2025 2026 新闻 动态 趋势 进展.  The texts of the
\* model are written in ASCII, each Chinese word by its pinyin.
time_keywords ==
    <<"zuixin", "jinqi", "jinnian", "zuijin", "dangqian", "2024", "2025", "2026",
      "xinwen", "dongtai", "qushi", "jinzhan">>

\* str.lower() on the letters the queries of the model are written with
LowerChar(c) ==
    CASE c = "A" -> "a"
      [] c = "I" -> "i"
      [] c = "N" -> "n"
      [] OTHER -> c

RECURSIVE lower(_)
lower(s) ==
    IF s = "" THEN "" ELSE LowerChar(SubSeq(s, 1, 1)) \o lower(SubSeq(s, 2, Len(s)))

\* sub in s
Contains(s, sub) ==
    \E i \in 1..(Len(s) - Len(sub) + 1) : SubSeq(s, i, i + Len(sub) - 1) = sub

\* (a heuristic that never asks for the web search)
should_use_web_search_never(query) == FALSE

should_use_web_search(query) ==
    LET query_lower == lower(query)
    IN  \E k \in 1..Len(time_keywords) : Contains(query_lower, time_keywords[k])

\* (a fallback that keeps only the first configured source)
fallback_plan_first(user_query, knowledge_bases) ==
    [analysis |-> "query: " \o user_query,
     retrieval_plan |->
        [i \in 1..(IF knowledge_bases = <<>> THEN 0 ELSE 1) |->
            [knowledge_base_id |-> knowledge_bases[i].id,
             knowledge_base_name |-> knowledge_bases[i].name,
             queries |-> <<user_query>>,
             reason |-> "fallback"]]]

\* _fallback_plan: every configured source, with the raw query
fallback_plan(user_query, knowledge_bases) ==
    [analysis |-> "query: " \o user_query,
     retrieval_plan |->
        [i \in 1..Len(knowledge_bases) |->
            [knowledge_base_id |-> knowledge_bases[i].id,
             knowledge_base_name |-> knowledge_bases[i].name,
             queries |-> <<user_query>>,
             reason |-> "fallback"]]]

\* What the planner's reply can hold: a JSON text, given by the kind of value
\* it encodes ("object", "array", "number") and that value; a text that is no
\* JSON; no text at all (message.content is None).
JsonText(kind, value) == [json |-> [kind |-> kind, value |-> value]]

NotJsonText == [text |-> "not json"]

NoContent == [none |-> TRUE]

\* json.loads(content): JSONDecodeError for a text that is no JSON, TypeError for None
json_loads(content) ==
    IF "json" \in DOMAIN content THEN [raised |-> FALSE, value |-> content.json]
    ELSE IF "text" \in DOMAIN content THEN [raised |-> TRUE, error |-> "JSONDecodeError"]
    ELSE [raised |-> TRUE, error |-> "TypeError"]

\* plan() with exactly one source: no call, the source with the raw query,
\* and a web_search_plan when the query has a time keyword
simple_plan(user_query, kb) ==
    LET simple == [analysis |-> "query: " \o user_query,
                   retrieval_plan |->
                      <<[knowledge_base_id |-> kb.id,
                         knowledge_base_name |-> kb.name,
                         queries |-> <<user_query>>,
                         reason |-> "default"]>>]
    IN  IF should_use_web_search(user_query)
        THEN [k \in DOMAIN simple \cup {"web_search_plan"} |->
                IF k = "web_search_plan"
                THEN <<[queries |-> <<user_query \o " zuixin", user_query \o " 2025">>,
                        reason |-> "time"]>>
                ELSE simple[k]]
        ELSE simple

\* PlanningAgent.plan(user_query, knowledge_bases); response is what the
\* awaited chat.completions.create does when it is called.  The result says
\* whether the call was made and which plan is returned; no path raises.
\* A reply that parses to something other than an object makes
\* '"web_search_plan" in plan' or plan.get raise, which except Exception
\* turns into the fallback like every other failure.
PlanningAgent_plan(user_query, knowledge_bases, response) ==
    IF Len(knowledge_bases) = 1
    THEN [called |-> FALSE, raised |-> FALSE, plan |-> simple_plan(user_query, knowledge_bases[1])]
    ELSE LET fallback == [called |-> TRUE, raised |-> FALSE,
                          plan |-> fallback_plan(user_query, knowledge_bases)]
         IN  IF response.raised THEN fallback
             ELSE LET parsed == json_loads(response.result) IN
                  IF parsed.raised THEN fallback
                  ELSE IF parsed.value.kind # "object" THEN fallback
                  ELSE [called |-> TRUE, raised |-> FALSE, plan |-> parsed.value.value]

\* What the planner call can do: raise, return a text that is no JSON, or
\* return the JSON text of one of Plans.
PlannerResponses ==
    {Raise, Return(NotJsonText)} \cup {Return(JsonText("object", p)) : p \in Plans}

\* The request's query and the configured sources of the pipeline runs
\* (settings.get_knowledge_bases()): two sources, so the planner is called.
RequestQuery == "q1"

ConfiguredSources == <<KnowledgeBaseConfig("kb1", "KB1"), KnowledgeBaseConfig("kb2", "KB2")>>

-----------------------------------------------------------------------------
\* knowledge_retrieval.retrieve_knowledge: the result items of a hit
KBItem(content, source, score, chunk_id, doc_id, kb_id) ==
    [content |-> content, source |-> source, score |-> score, chunk_id |-> chunk_id,
     doc_id |-> doc_id, doc_url |-> None,
     knowledge_base_id |-> kb_id, knowledge_base_name |-> kb_id]

KBOutcomes(kb_id) ==
    { Raise,
      Return(Failure),
      Return(Success(<<>>)),
      Return(Success(<<KBItem("a", "s1", 1, "k1", "A", kb_id)>>)),
      Return(Success(<<KBItem("a", "s1", 1, "k1", "A", kb_id),
                       KBItem("b", "s2", 2, "k2", "A", kb_id)>>)) }

\* web_search.web_search: the result items carry title, url, content, source
WebOutcomes ==
    { Raise,
      Return(Failure),
      Return(Success(<<>>)),
      Return(Success(<<[title |-> "t", url |-> "u", content |-> "c", source |-> "w"]>>)) }

\* result.get("success") and "results" in result
Collected(outcome) ==
    IF outcome.raised THEN <<>>
    ELSE IF Get(outcome.result, "success", FALSE) /\ "results" \in DOMAIN outcome.result
         THEN outcome.result.results
         ELSE <<>>

\* _retrieve_kb_async: Document(...) for each item of result["results"]
KBDocuments(items) ==
    [i \in 1..Len(items) |->
        Document(Get(items[i], "content", ""), Get(items[i], "source", "Unknown"),
                 Get(items[i], "chunk_id", None),
                 [score |-> Get(items[i], "score", None),
                  doc_id |-> Get(items[i], "doc_id", None),
                  doc_url |-> Get(items[i], "doc_url", None),
                  knowledge_base_id |-> Get(items[i], "knowledge_base_id", None),
                  knowledge_base_name |-> Get(items[i], "knowledge_base_name", None)])]

\* process(): Document(...) for each item of a web result
WebDocuments(items, query) ==
    [i \in 1..Len(items) |->
        Document(Get(items[i], "title", "") \o "\n\n" \o Get(items[i], "snippet", ""),
                 Get(items[i], "source", "Web Search"),
                 None,
                 [url |-> Get(items[i], "url", ""), search_query |-> query,
                  source_type |-> "web_search"])]

\* _retrieve_kb_async: doc_metadata of query_end, with file_id and file_name
DocMetadata(items) ==
    [i \in 1..Len(items) |->
        [title |-> Get(items[i], "source", "Unknown"), score |-> Get(items[i], "score", 0),
         chunk_id |-> Get(items[i], "chunk_id", None), doc_id |-> Get(items[i], "doc_id", None),
         file_id |-> Get(items[i], "doc_id", None),
         file_name |-> Get(items[i], "source", "Unknown")]]

KbStart(task) ==
    [type |-> "kb_start", task_id |-> task.task_id, kb_id |-> task.kb_id,
     kb_name |-> task.kb_name, query_count |-> Len(task.queries)]

QueryStart(task, query) ==
    [type |-> "query_start", task_id |-> task.task_id, kb_name |-> task.kb_name,
     query |-> query]

\* query_end of a query whose call raised, reported as a success
QueryEndUncaught(task, query, outcome) ==
    [type |-> "query_end", task_id |-> task.task_id, kb_name |-> task.kb_name,
     query |-> query, success |-> TRUE, doc_count |-> 0, doc_metadata |-> <<>>]

QueryEnd(task, query, outcome) ==
    IF outcome.raised
    THEN [type |-> "query_end", task_id |-> task.task_id, kb_name |-> task.kb_name,
          query |-> query, success |-> FALSE, error |-> "e", doc_count |-> 0]
    ELSE [type |-> "query_end", task_id |-> task.task_id, kb_name |-> task.kb_name,
          query |-> query, success |-> Get(outcome.result, "success", FALSE),
          doc_count |-> Len(Collected(outcome)),
          doc_metadata |-> DocMetadata(Collected(outcome))]

KbEnd(task, kb_doc_count) ==
    [type |-> "kb_end", task_id |-> task.task_id, kb_id |-> task.kb_id,
     kb_name |-> task.kb_name, total_docs |-> kb_doc_count]

\* _retrieve_kb_async with every query of the plan item, however many
NewTaskAllQueries(task_id, plan_item) ==
    LET task == [task_id |-> task_id,
                 kb_id |-> plan_item.knowledge_base_id,
                 kb_name |-> plan_item.knowledge_base_name,
                 queries |-> plan_item.queries,
                 answered |-> 0,
                 kb_doc_count |-> 0,
                 outcomes |-> <<>>,
                 events |-> <<>>]
    IN  [task EXCEPT !.events = <<KbStart(task), QueryStart(task, task.queries[1])>>]

\* collect_kb_events(task_id, ...) up to its first await: kb_start and the
\* first query_start, or kb_start and kb_end when the item has no query.
\* task_id is uuid4()[:8]; the tasks of a request get distinct ids.
NewTask(task_id, plan_item) ==
    LET task == [task_id |-> task_id,
                 kb_id |-> plan_item.knowledge_base_id,
                 kb_name |-> plan_item.knowledge_base_name,
                 queries |-> Take(plan_item.queries, max_queries_per_kb),
                 answered |-> 0,
                 kb_doc_count |-> 0,
                 outcomes |-> <<>>,
                 events |-> <<>>]
    IN  [task EXCEPT !.events =
            IF task.queries = <<>> THEN <<KbStart(task), KbEnd(task, 0)>>
            ELSE <<KbStart(task), QueryStart(task, task.queries[1])>>]

\* for search_item in web_search_plan: for query in queries
RECURSIVE WebQueries(_)
WebQueries(web_search_plan) ==
    IF web_search_plan = <<>> THEN <<>>
    ELSE Get(Head(web_search_plan), "queries", <<>>) \o WebQueries(Tail(web_search_plan))

\* What process() yields once retrieve_with_plan_parallel is exhausted:
\* web_search_start if the plan has a web_search_plan, else retrieval_end.
\* (retrieval_end ahead of the web search)
AfterRetrievalEndFirst(has_web_search, total) ==
    IF has_web_search
    THEN <<[type |-> "retrieval_end", total |-> total], [type |-> "web_search_start"]>>
    ELSE <<[type |-> "retrieval_end", total |-> total]>>

AfterRetrieval(has_web_search, total) ==
    IF has_web_search
    THEN <<[type |-> "web_search_start"]>>
    ELSE <<[type |-> "retrieval_end", total |-> total]>>

\* What process() yields after the last web query: web_search_end, then retrieval_end.
AfterWebSearch(added_count, total) ==
    <<[type |-> "web_search_end", added_count |-> added_count, total |-> total],
      [type |-> "retrieval_end", total |-> total]>>

\* an exception that reaches the handler of process() and is dropped there
UncaughtSilent(error) == <<>>

\* except Exception as e (process()): one error event, and process() ends
Uncaught(error) == <<[type |-> "error", error |-> error]>>

\* SummaryAgent.summarize(self, user_query, doc_manager, session_id, max_docs=None)
summarize_params == <<"user_query", "doc_manager", "session_id", "max_docs">>

summarize_defaults == {"max_docs"}

\* self.summary_agent.summarize(user_query, doc_manager, max_docs=MAX_DOCS_FOR_SUMMARY)
call_positional == 2

call_keywords == {"max_docs"}

\* The parameters a call leaves without a value: Python raises TypeError for them.
MissingArguments(params, defaults, positional, keywords) ==
    {params[i] : i \in (positional + 1)..Len(params)} \ (defaults \cup keywords)

-----------------------------------------------------------------------------
(* The wire protocol (shared/protocols/java_protocol.py) *)

build_java_message(event_type, context, messages) ==
    [event_type |-> event_type, context |-> context, messages |-> messages]

\* build_context(): the optional keys are set only for truthy arguments
build_context(stage_id, invocation_id, executor) ==
    LET given == [stage_id |-> stage_id, invocation_id |-> invocation_id,
                  executor |-> executor]
    IN  [k \in {"mode"} \cup {f \in DOMAIN given : Truthy(given[f])} |->
            IF k = "mode" THEN "plan-executor" ELSE given[k]]

Stage(stage_id) == [stage_id |-> stage_id, status |-> "PENDING"]

\* StageDefinition.get_all_stages with no web_search stage, whatever is asked
get_all_stages_fixed(include_web_search) ==
    <<Stage("planning"), Stage("retrieval"), Stage("summary")>>

get_all_stages(include_web_search) ==
    <<Stage("planning"), Stage("retrieval")>>
    \o (IF include_web_search THEN <<Stage("web_search")>> ELSE <<>>)
    \o <<Stage("summary")>>

build_plan_declared(include_web_search) ==
    build_java_message("PLAN_DECLARED", build_context(None, None, None),
                       get_all_stages(include_web_search))

\* (a status change that sets every stage RUNNING, whatever status is asked)
build_plan_change_running(stage_id, status) ==
    build_java_message("PLAN_CHANGE", build_context(None, None, None),
        <<[change_type |-> "STATUS_CHANGE", stage_id |-> stage_id, status |-> "RUNNING"]>>)

build_plan_change_status(stage_id, status) ==
    build_java_message("PLAN_CHANGE", build_context(None, None, None),
        <<[change_type |-> "STATUS_CHANGE", stage_id |-> stage_id, status |-> status]>>)

\* JavaEventType.STREAM_THING has the value "STREAM_THINK"
build_stream_thing(content) ==
    build_java_message("STREAM_THINK", build_context(None, None, None),
                       <<[content |-> content]>>)

build_stream_content(content) ==
    build_java_message("STREAM_CONTENT", build_context(None, None, None),
                       <<[content |-> content]>>)

build_invocation_declared(stage_id, invocation_id, name, executor) ==
    build_java_message("INVOCATION_DECLARED",
        build_context(stage_id, invocation_id, executor),
        <<[name |-> name, invocation_type |-> "search", click_effect |-> "",
           content |-> ""]>>)

build_invocation_complete(stage_id, invocation_id, content, executor) ==
    build_java_message("INVOCATION_CHANGE",
        build_context(stage_id, invocation_id, executor),
        <<[change_type |-> "STATUS_CHANGE", status |-> "COMPLETED"],
          [change_type |-> "CONTENT_APPEND", content |-> content]>>)

build_artifact(stage_id, artifact_id, artifact_type, content) ==
    build_java_message("ARTIFACT",
        [mode |-> "plan-executor", stage_id |-> stage_id],
        <<[scope |-> "STAGE", source |-> "kb", artifact_id |-> artifact_id,
           artifact_type |-> artifact_type, content |-> content]>>)

build_artifact_change(stage_id, artifact_id, content, data_type) ==
    build_java_message("ARTIFACT_CHANGE",
        [mode |-> "plan-executor", artifact_id |-> artifact_id, stage_id |-> stage_id],
        <<[scope |-> "STAGE", change_type |-> "CONTENT_APPEND", data_type |-> data_type,
           content |-> content]>>)

build_end ==
    build_java_message("END", build_context(None, None, None), <<>>)

\* str(task_id) in an f-string; the task ids of the model are numbers
Str(task_id) == ToString(task_id)

\* s.replace(old, new) for one-character old
RECURSIVE Replace(_, _, _)
Replace(s, old, new) ==
    IF s = "" THEN ""
    ELSE (IF SubSeq(s, 1, 1) = old THEN new ELSE SubSeq(s, 1, 1))
         \o Replace(SubSeq(s, 2, Len(s)), old, new)

\* hashlib.md5(content.encode('utf-8')).hexdigest()[:8]: the first 8 of the
\* digest's 32 hex digits.  Distinct digests can share them: those of
\* "KB1::q1::00008866" and "KB1::q1::00016171" both begin with 6759ed3d.
\* No other two texts of the model share their first 8 digits.
hexdigest8(content) ==
    IF content \in {"KB1::q1::00008866", "KB1::q1::00016171"} THEN "6759ed3d"
    ELSE Md5(content)

\* kb_name[:10].replace(" ", "-"), computed once for the source names of the
\* requests below
kb_short_known ==
    [n \in {"KB1", "KB2", "kb1", "kb2", "web_search", "KB 2", "knowledge base 3"} |->
        Replace(Take(n, 10), " ", "-")]

\* kb_name[:10].replace(" ", "-")
kb_short(kb_name) ==
    IF kb_name \in DOMAIN kb_short_known THEN kb_short_known[kb_name]
    ELSE Replace(Take(kb_name, 10), " ", "-")

\* an id computed from the source name and the query alone
generate_invocation_id_notask(kb_name, query, task_id) ==
    "inv-" \o kb_short(kb_name) \o "-" \o hexdigest8(kb_name \o "::" \o query \o "::")

\* f"inv-{kb_short}-{hash_value}", hash_value from f"{kb_name}::{query}::{task_id}"
generate_invocation_id(kb_name, query, task_id) ==
    "inv-" \o kb_short(kb_name) \o "-"
           \o hexdigest8(kb_name \o "::" \o query \o "::" \o task_id)

\* json.dumps(obj): the text that encodes obj
json_dumps(obj) == [json |-> obj]

-----------------------------------------------------------------------------
(* generate_events (agents/zhiku/api/endpoints.py): one orchestrator event  *)
(* becomes zero or more wire messages                                       *)

\* txt = "..." of generate_events has 17 characters: one STREAM_THINK each
ThinkChars == 17

Thinking == [i \in 1..ThinkChars |-> build_stream_thing("t")]

\* plan_declared_sent: a PLAN_DECLARED has been yielded on this stream
plan_declared_sent(w) == \E i \in 1..Len(w) : w[i].event_type = "PLAN_DECLARED"

\* hasattr(generate_events, "_summary_started") of a translator that never
\* sets the attribute
summary_started_never(w) == FALSE

\* hasattr(generate_events, "_summary_started")
summary_started(w) ==
    \E i \in 1..Len(w) :
        /\ w[i].event_type = "ARTIFACT"
        /\ w[i].messages[1].artifact_id = "summary-content-001"

Messages(msgs) == [fault |-> FALSE, messages |-> msgs]

Fault == [fault |-> TRUE, messages |-> <<>>]

OnPlanningEnd(event, w) ==
    LET p == Get(event, "plan", [k \in {} |-> None])
    IN  Messages((IF ~plan_declared_sent(w)
                  THEN <<build_plan_declared("web_search_plan" \in DOMAIN p)>>
                  ELSE <<>>)
                 \o <<build_stream_thing("analysis: " \o Get(p, "analysis", "")),
                      build_plan_change_status("planning", "COMPLETED")>>)

\* the query_start branch; query_text[:30] raises for a query that is no str
OnQueryStart(event) ==
    LET task_id == Str(event.task_id)
        kb_name == Get(event, "kb_name", "")
        query_text == Get(event, "query", "")
        invocation_id == generate_invocation_id(kb_name, query_text, task_id)
    IN  IF ~Subscriptable(query_text) THEN Fault
        ELSE Messages(<<build_invocation_declared("retrieval", invocation_id,
                            "query " \o kb_name \o ": " \o query_text,
                            "retrieval-agent")>>)

\* the query_end branch with the id computed without the task id
OnQueryEndOtherId(event) ==
    LET kb_name == Get(event, "kb_name", "")
        query_text == Get(event, "query", "")
        invocation_id == generate_invocation_id(kb_name, query_text, "")
    IN  Messages(<<build_invocation_complete("retrieval", invocation_id,
                       json_dumps([success |-> Get(event, "success", FALSE)]),
                       "retrieval-agent")>>)

OnQueryEnd(event) ==
    LET task_id == Str(event.task_id)
        kb_name == Get(event, "kb_name", "")
        query_text == Get(event, "query", "")
        success == Get(event, "success", FALSE)
        doc_metadata == Get(event, "doc_metadata", <<>>)
        invocation_id == generate_invocation_id(kb_name, query_text, task_id)
        content ==
            IF success /\ doc_metadata # <<>>
            THEN json_dumps([success |-> TRUE, doc_count |-> Get(event, "doc_count", 0),
                             documents |-> doc_metadata])
            ELSE IF success
            THEN json_dumps([success |-> TRUE, doc_count |-> 0, message |-> "none"])
            ELSE json_dumps([success |-> FALSE, error |-> Get(event, "error", "Unknown")])
    IN  Messages(<<build_invocation_complete("retrieval", invocation_id, content,
                                             "retrieval-agent")>>)

OnWebSearchQueryStart(event) ==
    LET query == Get(event, "query", "")
        invocation_id == generate_invocation_id("web_search", query, "web")
    IN  IF ~Subscriptable(query) THEN Fault
        ELSE Messages(<<build_invocation_declared("web_search", invocation_id,
                            "web " \o query, "web-search-agent")>>)

OnWebSearchQueryEnd(event) ==
    LET query == Get(event, "query", "")
        result == Get(event, "result", [k \in {} |-> None])
        invocation_id == generate_invocation_id("web_search", query, "web")
        content ==
            IF Get(result, "success", FALSE)
            THEN json_dumps([success |-> TRUE, result_count |-> Get(result, "count", 0),
                             query |-> query])
            ELSE json_dumps([success |-> FALSE, error |-> Get(result, "error", "Unknown")])
    IN  Messages(<<build_invocation_complete("web_search", invocation_id, content,
                                             "web-search-agent")>>)

OnReferences(event) ==
    Messages(<<build_artifact("summary", "references-001", "reference_list", ""),
               build_artifact_change("summary", "references-001",
                                     json_dumps(Get(event, "references", <<>>)),
                                     "STRUCTURED"),
               build_plan_change_status("summary", "RUNNING")>>)

OnContent(event, w) ==
    Messages((IF ~summary_started(w)
              THEN <<build_artifact("summary", "summary-content-001", "summary_report", "")>>
              ELSE <<>>)
             \o <<build_artifact_change("summary", "summary-content-001",
                                        event.content, "FILE")>>)

\* the summary_complete branch: the whole text again, one STREAM_CONTENT for
\* each of its characters, then the summary stage is completed
OnSummaryComplete(event) ==
    Messages([i \in 1..Len(event.content) |->
                 build_stream_content(SubSeq(event.content, i, i))]
             \o <<build_plan_change_status("summary", "COMPLETED")>>)

\* The if/elif chain of generate_events; an event type with no branch
\* (kb_start, kb_end) yields nothing.
OnEvent(event, w) ==
    LET event_type == Get(event, "type", None) IN
    CASE event_type = "planning_start" ->
            Messages(<<build_plan_change_status("planning", "RUNNING")>>)
      [] event_type = "planning_end" -> OnPlanningEnd(event, w)
      [] event_type = "retrieval_start" ->
            Messages(<<build_plan_change_status("retrieval", "RUNNING")>>)
      [] event_type = "query_start" -> OnQueryStart(event)
      [] event_type = "query_end" -> OnQueryEnd(event)
      [] event_type = "retrieval_end" ->
            Messages(<<build_stream_thing("retrieval total " \o ToString(Get(event, "total", 0))),
                       build_plan_change_status("retrieval", "COMPLETED")>>)
      [] event_type = "web_search_start" ->
            Messages(<<build_plan_change_status("web_search", "RUNNING")>>)
      [] event_type = "web_search_query_start" -> OnWebSearchQueryStart(event)
      [] event_type = "web_search_query_end" -> OnWebSearchQueryEnd(event)
      [] event_type = "web_search_end" ->
            Messages(<<build_stream_thing("web total " \o ToString(Get(event, "added_count", 0))
                                          \o " " \o ToString(Get(event, "total", 0))),
                       build_plan_change_status("web_search", "COMPLETED")>>)
      [] event_type = "references" -> OnReferences(event)
      [] event_type = "content" -> OnContent(event, w)
      [] event_type = "summary_complete" -> OnSummaryComplete(event)
      [] event_type = "error" ->
            Messages(<<build_stream_thing("error: " \o Get(event, "error", "Unknown error"))>>)
      [] OTHER -> Messages(<<>>)

\* the except branch of generate_events without its END
OnExceptionNoEnd(w) == w \o <<build_stream_thing("system error")>>

\* except Exception: a STREAM_THINK with the error, then END
OnException(w) == w \o <<build_stream_thing("system error"), build_end>>

\* async for event in orchestrator.process(query): the events are handled
\* one by one; the first one whose branch raises ends the loop, and the
\* events after it are never asked for.
RECURSIVE generate_events(_, _)
generate_events(evs, w) ==
    IF evs = <<>> THEN [wire |-> w, taken |-> 0, fault |-> FALSE]
    ELSE LET handled == OnEvent(Head(evs), w) IN
         IF handled.fault
         THEN [wire |-> OnException(w), taken |-> 1, fault |-> TRUE]
         ELSE LET rest == generate_events(Tail(evs), w \o handled.messages)
              IN  [rest EXCEPT !.taken = @ + 1]

\* process() yields evs, one at a time, to generate_events: the events it is
\* asked for are its output, and their messages go on the wire.  After a
\* fault of generate_events the stream is closed.
Yield(evs, next_pc) ==
    LET out == generate_events(evs, wire) IN
    /\ events' = events \o Take(evs, out.taken)
    /\ wire' = out.wire
    /\ pc' = IF out.fault THEN "closed" ELSE next_pc

-----------------------------------------------------------------------------
(* FunSpec: generate_invocation_id and PlanningAgent.plan called on their   *)
(* own, with arguments drawn from the sets below                            *)

\* Source names: a short one, one with a blank, one longer than 10 characters
SourceNames == {"KB1", "KB 2", "knowledge base 3"}

QueryTexts == {"q1", "q2"}

\* Task ids: none, the web search's, a task number, and two of the 8-digit
\* hex prefixes str(uuid.uuid4())[:8] can give
TaskIds == {"", "web", "1", "00008866", "00016171"}

\* The queries of a request: the two of the plan heuristic's examples
\* (深度学习的基本原理, 人工智能最新进展 2025), two with capital letters, a short one
UserQueries ==
    {"shendu xuexi de jiben yuanli", "rengong zhineng zuixin jinzhan 2025",
     "AI News 2024", "AI", "q1"}

\* The configured sources: none, one, two, three
SourceConfigs ==
    {<<>>,
     <<KnowledgeBaseConfig("kb1", "KB1")>>,
     <<KnowledgeBaseConfig("kb1", "KB1"), KnowledgeBaseConfig("kb2", "KB2")>>,
     <<KnowledgeBaseConfig("kb1", "KB1"), KnowledgeBaseConfig("kb2", "KB2"),
       KnowledgeBaseConfig("kb3", "KB3")>>}

\* Every reply of the planner: those of the pipeline runs, a reply without
\* text, and JSON texts that encode an array and a number
AllPlannerResponses ==
    PlannerResponses
    \cup {Return(NoContent), Return(JsonText("array", <<>>)), Return(JsonText("number", 5))}

\* generate_invocation_id called twice
GenerateInvocationIds(a, b) ==
    /\ op' = [name |-> "generate_invocation_id", arg |-> <<a, b>>]
    /\ ret' = <<generate_invocation_id(a.kb_name, a.query, a.task_id),
                generate_invocation_id(b.kb_name, b.query, b.task_id)>>
    /\ UNCHANGED <<documents, doc_hash_map, firstRet, pipevars>>

\* await planning_agent.plan(user_query, knowledge_bases)
Plan(user_query, knowledge_bases, response) ==
    /\ op' = [name |-> "plan",
              arg |-> [user_query |-> user_query, knowledge_bases |-> knowledge_bases,
                       response |-> response]]
    /\ ret' = PlanningAgent_plan(user_query, knowledge_bases, response)
    /\ UNCHANGED <<documents, doc_hash_map, firstRet, pipevars>>

FunNext ==
    \/ \E a, b \in [kb_name : SourceNames, query : QueryTexts, task_id : TaskIds] :
          GenerateInvocationIds(a, b)
    \/ \E user_query \in UserQueries : \E knowledge_bases \in SourceConfigs :
          \E response \in AllPlannerResponses : Plan(user_query, knowledge_bases, response)

FunSpec == RegInit /\ [][FunNext]_vars

-----------------------------------------------------------------------------
(* Spec: the requests the orchestrator serves *)

Init ==
    /\ documents = <<>>
    /\ doc_hash_map = EmptyMap
    /\ op = [name |-> "init", arg |-> None]
    /\ ret = None
    /\ firstRet = EmptyMap
    /\ PipeIdle

has_web_search == "web_search_plan" \in DOMAIN plan

\* generate_events starts: the STREAM_THINK characters, then process() is
\* called; it yields planning_start and awaits planning_agent.plan
StartRun ==
    /\ pc \in {"idle", "closed"}
    /\ run < MaxRuns
    /\ run' = run + 1
    /\ pc' = "planning"
    /\ events' = <<[type |-> "planning_start"]>>
    /\ wire' = generate_events(<<[type |-> "planning_start"]>>, Thinking).wire
    /\ agent_events' = <<>>
    /\ plan' = None
    /\ tasks' = <<>>
    /\ finished' = <<>>
    /\ yielded' = 0
    /\ doc_count' = 0
    /\ web_queue' = <<>>
    /\ retrieved' = {}
    /\ planner' = None
    /\ UNCHANGED <<regvars, summary>>

\* The planner call ends and plan() returns: planning_end, retrieval_start,
\* and the retrieval tasks are created.  A plan item without one of the keys
\* read with plan_item[...] raises KeyError while the tasks are being
\* created: no task runs, and the handler of process() yields one error event.
PlanReturns(response) ==
    /\ pc = "planning"
    /\ planner' = response
    /\ LET p == PlanningAgent_plan(RequestQuery, ConfiguredSources, response).plan
           retrieval_plan == Get(p, "retrieval_plan", <<>>)
           well_formed == \A t \in 1..Len(retrieval_plan) :
                              ItemKeys \subseteq DOMAIN retrieval_plan[t]
       IN  /\ plan' = p
           /\ IF well_formed
              THEN /\ tasks' = [t \in 1..Len(retrieval_plan) |-> NewTask(t, retrieval_plan[t])]
                   /\ finished' = SelectSeq([t \in 1..Len(retrieval_plan) |-> t],
                                            LAMBDA t : retrieval_plan[t].queries = <<>>)
                   /\ Yield(<<[type |-> "planning_end", plan |-> p],
                              [type |-> "retrieval_start"]>>, "retrieval")
              ELSE /\ tasks' = <<>>
                   /\ finished' = <<>>
                   /\ Yield(<<[type |-> "planning_end", plan |-> p],
                              [type |-> "retrieval_start"]>> \o Uncaught("KeyError"), "done")
    /\ UNCHANGED <<regvars, run, summary, yielded, doc_count, web_queue, retrieved, agent_events>>

\* A task's awaited retrieve_knowledge call ends: the hits go into the shared
\* manager, query_end is collected, then the next query_start or kb_end.
TaskResult(t, outcome) ==
    /\ pc = "retrieval"
    /\ tasks[t].answered < Len(tasks[t].queries)
    /\ LET task == tasks[t]
           query == task.queries[task.answered + 1]
           docs == KBDocuments(Collected(outcome))
           dm == add_documents(Manager, docs)
           last == task.answered + 1 = Len(task.queries)
           kb_doc_count == task.kb_doc_count + Len(docs)
       IN  /\ documents' = dm.documents
           /\ doc_hash_map' = dm.doc_hash_map
           /\ tasks' = [tasks EXCEPT ![t] =
                 [task EXCEPT
                    !.answered = @ + 1,
                    !.kb_doc_count = kb_doc_count,
                    !.outcomes = Append(@, outcome),
                    !.events = @ \o <<QueryEnd(task, query, outcome),
                                      IF last THEN KbEnd(task, kb_doc_count)
                                      ELSE QueryStart(task, task.queries[task.answered + 2])>>]]
           /\ finished' = IF last THEN Append(finished, t) ELSE finished
           /\ retrieved' = retrieved \cup {compute_hash(docs[i]) : i \in 1..Len(docs)}
    /\ UNCHANGED <<op, ret, firstRet, run, planner, summary, pc, events, plan, yielded, doc_count, web_queue,
                   agent_events, wire>>

\* for coro in asyncio.as_completed(all_tasks): the events of the next
\* completed task are yielded, and process() forwards each of them.
YieldTaskEvents ==
    /\ pc = "retrieval"
    /\ yielded < Len(finished)
    /\ Yield(tasks[finished[yielded + 1]].events, "retrieval")
    /\ agent_events' = agent_events \o Take(tasks[finished[yielded + 1]].events,
                                             Len(events') - Len(events))
    /\ yielded' = yielded + 1
    /\ UNCHANGED <<regvars, run, planner, summary, plan, tasks, finished, doc_count, web_queue, retrieved>>

\* retrieval_complete hands process() the agent's manager; doc_count is read
RetrievalComplete ==
    /\ pc = "retrieval"
    /\ yielded = Len(tasks)
    /\ agent_events' = Append(agent_events,
                              [type |-> "retrieval_complete", doc_manager |-> Manager])
    /\ doc_count' = Len(documents)
    /\ Yield(AfterRetrieval(has_web_search, Len(documents)),
             IF has_web_search THEN "web_search" ELSE "retrieval_end")
    /\ web_queue' = IF has_web_search THEN WebQueries(Get(plan, "web_search_plan", <<>>))
                    ELSE <<>>
    /\ UNCHANGED <<regvars, run, planner, summary, plan, tasks, finished, yielded, retrieved>>

\* web_search_query_start is yielded and the web_search call awaited
WebQueryStart ==
    /\ pc = "web_search"
    /\ web_queue # <<>>
    /\ Yield(<<[type |-> "web_search_query_start", query |-> Head(web_queue)]>>, "web_await")
    /\ UNCHANGED <<regvars, run, planner, summary, plan, tasks, finished, yielded, doc_count, web_queue, retrieved,
                   agent_events>>

\* the web_search call ends: its hits are added, web_search_query_end is yielded
WebResult(outcome) ==
    /\ pc = "web_await"
    /\ LET query == Head(web_queue)
           docs == WebDocuments(Collected(outcome), query)
           dm == add_documents(Manager, docs)
       IN  /\ documents' = dm.documents
           /\ doc_hash_map' = dm.doc_hash_map
           /\ Yield(<<[type |-> "web_search_query_end", query |-> query,
                       result |-> IF outcome.raised THEN Failure ELSE outcome.result]>>,
                    "web_search")
           /\ retrieved' = retrieved \cup {compute_hash(docs[i]) : i \in 1..Len(docs)}
    /\ web_queue' = Tail(web_queue)
    /\ UNCHANGED <<op, ret, firstRet, run, planner, summary, plan, tasks, finished, yielded, doc_count,
                   agent_events>>

\* after the last web query: web_search_end and retrieval_end with the new total
WebSearchEnd ==
    /\ pc = "web_search"
    /\ web_queue = <<>>
    /\ Yield(AfterWebSearch(Len(documents) - doc_count, Len(documents)), "retrieval_end")
    /\ doc_count' = Len(documents)
    /\ UNCHANGED <<regvars, run, planner, summary, plan, tasks, finished, yielded, web_queue, retrieved,
                   agent_events>>

\* if doc_count == 0: the "no documents found" content event, and return
NoResults ==
    /\ pc = "retrieval_end"
    /\ doc_count = 0
    /\ Yield(<<[type |-> "content", content |-> "no_results"]>>, "done")
    /\ UNCHANGED <<regvars, run, planner, summary, plan, tasks, finished, yielded, doc_count, web_queue, retrieved,
                   agent_events>>

\* sort_documents, get_references(max_docs=MAX_DOCS_FOR_SUMMARY), the references event
PublishReferences ==
    /\ pc = "retrieval_end"
    /\ doc_count # 0
    /\ LET dm == sort_documents(Manager) IN
        /\ documents' = dm.documents
        /\ doc_hash_map' = dm.doc_hash_map
        /\ Yield(<<[type |-> "references",
                    references |-> get_references(dm, MAX_DOCS_FOR_SUMMARY)]>>, "summary")
    /\ UNCHANGED <<op, ret, firstRet, run, planner, summary, plan, tasks, finished, yielded, doc_count,
                   web_queue, retrieved, agent_events>>

\* self.summary_agent.summarize(...) is called: a call that leaves a
\* parameter without a value raises TypeError, which the handler of process()
\* turns into an error event.
Summarize ==
    /\ pc = "summary"
    /\ IF MissingArguments(summarize_params, summarize_defaults,
                           call_positional, call_keywords) # {}
       THEN Yield(Uncaught("TypeError"), "done")
       ELSE Yield(<<>>, "summarizing")
    /\ UNCHANGED <<regvars, run, planner, summary, plan, tasks, finished, yielded, doc_count, web_queue, retrieved,
                   agent_events>>

\* generate_events left waiting after process() is exhausted
SendEndNever == FALSE /\ UNCHANGED vars

\* process() is exhausted: generate_events leaves its loop and yields END
SendEnd ==
    /\ pc = "done"
    /\ wire' = Append(wire, build_end)
    /\ pc' = "closed"
    /\ UNCHANGED <<regvars, run, planner, summary, events, plan, tasks, finished, yielded, doc_count, web_queue,
                   retrieved, agent_events>>

Next ==
    \/ StartRun
    \/ \E response \in PlannerResponses : PlanReturns(response)
    \/ \E t \in 1..Len(tasks) : \E outcome \in KBOutcomes(tasks[t].kb_id) : TaskResult(t, outcome)
    \/ YieldTaskEvents
    \/ RetrievalComplete
    \/ WebQueryStart
    \/ \E outcome \in WebOutcomes : WebResult(outcome)
    \/ WebSearchEnd
    \/ NoResults
    \/ PublishReferences
    \/ Summarize
    \/ SendEnd

Spec == Init /\ [][Next]_vars

\* The steps of a request that wait for something outside process(): an
\* awaited call (the planner, a retrieval call, a web search), the event loop
\* running a task, the consumer of the stream asking for the next message.
Awaited ==
    \/ \E response \in PlannerResponses : PlanReturns(response)
    \/ \E t \in 1..Len(tasks) : \E outcome \in KBOutcomes(tasks[t].kb_id) : TaskResult(t, outcome)
    \/ YieldTaskEvents
    \/ RetrievalComplete
    \/ WebQueryStart
    \/ \E outcome \in WebOutcomes : WebResult(outcome)
    \/ WebSearchEnd
    \/ NoResults
    \/ Summarize
    \/ SendEnd

\* PublishReferences can be taken exactly in these states
PublishReferencesEnabled == pc = "retrieval_end" /\ doc_count # 0

\* A step of Awaited other than SendEnd can be taken exactly in these states:
\* a request is in flight, process() is not exhausted, and it is not at the
\* references step
AwaitedEnabled == pc \notin {"idle", "done", "closed"} /\ ~PublishReferencesEnabled

\* Every awaited call returns or raises, and the consumer of the stream keeps
\* reading: a step of a request that can be taken is taken.  The consumer's
\* last read is WF_vars(SendEnd); the other two conjuncts are the weak
\* fairness of the other steps of Awaited and of PublishReferences, with
\* ENABLED written out.  New requests need not arrive.
LiveSpec ==
    /\ Spec
    /\ WF_vars(SendEnd)
    /\ ([]<>~AwaitedEnabled \/ []<><<Awaited>>_vars)
    /\ ([]<>~PublishReferencesEnabled \/ []<><<PublishReferences>>_vars)

-----------------------------------------------------------------------------
(* SummaryAgent.summarize (agents/zhiku/llm/summary_agent.py), and SumSpec: *)
(* a request whose references are published and whose summarize call is     *)
(* given every parameter                                                    *)

\* No more than MaxChunks chunks are read from the completion stream.
MaxChunks == 3

SessionId == "s1"

\* full_content += content, keeping the last token only
AccumulateLast(full_content, content) == content

\* full_content += content
Accumulate(full_content, content) == full_content \o content

RECURSIVE lstrip(_)
lstrip(s) == IF s # "" /\ SubSeq(s, 1, 1) = " " THEN lstrip(SubSeq(s, 2, Len(s))) ELSE s

RECURSIVE rstrip(_)
rstrip(s) ==
    IF s # "" /\ SubSeq(s, Len(s), Len(s)) = " " THEN rstrip(SubSeq(s, 1, Len(s) - 1)) ELSE s

\* str.strip()
strip(s) == rstrip(lstrip(s))

\* TOOL_FUNCTIONS of agents/zhiku/tools/file_ops.py
TOOL_FUNCTIONS == {"write_file"}

\* the local variables of summarize as it initialises them; chunks counts the
\* chunks read, executed the tool calls gone through, and writes is the
\* history of the write_file calls with what each did
SummaryLocals ==
    [full_content |-> "", tool_calls |-> <<>>, write_file_called |-> FALSE,
     file_path |-> "", chunks |-> 0, executed |-> 0, writes |-> <<>>]

\* What write_file does: it raises, it returns the text of an error it met,
\* or it returns the text that names the stored file.
WriteErrorText == "error: store"

WriteOutcomes == {Raise, Return(WriteErrorText), Return("sessions/s1/summary.md")}

\* The argument texts of a tool call: no JSON, an object with the prompt's
\* placeholder and no content, an object with both arguments, an array
ArgumentTexts ==
    {NotJsonText,
     JsonText("object", [session_id |-> "{session_id}"]),
     JsonText("object", [session_id |-> "s1", content |-> "y"]),
     JsonText("array", <<>>)}

NoChoices == [choices |-> FALSE]

Delta(content, tool_calls) == [choices |-> TRUE, content |-> content, tool_calls |-> tool_calls]

ToolCallChunk(name, arguments) == [name |-> name, arguments |-> arguments]

\* The chunks of the completion stream: one without choices, deltas with an
\* empty, a blank and a visible token, and deltas that carry a tool call (a
\* call arrives in one chunk, with its whole argument text).
StreamChunks ==
    {NoChoices}
    \cup {Delta(c, <<>>) : c \in {"", " ", "x"}}
    \cup {Delta("", <<ToolCallChunk("write_file", a)>>) : a \in ArgumentTexts}
    \cup {Delta("", <<ToolCallChunk("read_file", NotJsonText)>>)}

\* the body of "async for chunk in response": the new locals and the events yielded
on_chunk(s, chunk) ==
    LET read == [s EXCEPT !.chunks = @ + 1] IN
    IF ~chunk.choices THEN [locals |-> read, events |-> <<>>]
    ELSE LET told == IF chunk.content # ""
                     THEN [read EXCEPT !.full_content = Accumulate(@, chunk.content)]
                     ELSE read
         IN  [locals |-> [told EXCEPT !.tool_calls = @ \o chunk.tool_calls],
              events |-> IF chunk.content # ""
                         THEN <<[type |-> "content", content |-> chunk.content]>>
                         ELSE <<>>]

\* One turn of "for tool_call in tool_calls": the arguments are parsed and
\* completed and the tool is awaited, all inside a try whose handler only
\* logs; outcome is what write_file does when it is called.
execute_tool(s, tool_call, outcome) ==
    LET gone == [s EXCEPT !.executed = @ + 1]
        parsed == json_loads(tool_call.arguments)
    IN  IF tool_call.name \notin TOOL_FUNCTIONS THEN gone
        ELSE IF parsed.raised THEN gone
        ELSE IF parsed.value.kind # "object" THEN gone
        ELSE LET given == parsed.value.value
                 content == IF "content" \in DOMAIN given /\ given.content # ""
                            THEN given.content ELSE s.full_content
                 called == [gone EXCEPT !.writes =
                               Append(@, [session_id |-> SessionId, content |-> content,
                                          outcome |-> outcome])]
             IN  IF outcome.raised THEN called
                 ELSE [called EXCEPT !.write_file_called = TRUE,
                                     !.file_path = outcome.result]

\* if not write_file_called and full_content.strip(): write_file is called
\* with the whole text, inside a try whose handler only logs
fallback_write(s, outcome) ==
    IF ~s.write_file_called /\ strip(s.full_content) # ""
    THEN LET called == [s EXCEPT !.writes =
                           Append(@, [session_id |-> SessionId, content |-> s.full_content,
                                      outcome |-> outcome])]
         IN  IF outcome.raised THEN called ELSE [called EXCEPT !.file_path = outcome.result]
    ELSE s

\* except Exception as e of summarize: one error event, and summarize ends
SummaryError == <<[type |-> "error", error |-> "e"]>>

\* The registries a request has filled when its retrieval ends: one or two
\* results of the sources k1 and k2
SumRegistries ==
    LET found == {d \in DocPool : d.knowledge_id \in {"k1", "k2"}} IN
    {add_documents(NewManager, docs) :
        docs \in {<<d>> : d \in found} \cup {<<d1, d2>> : d1 \in found, d2 \in found}}

\* A request at the end of its retrieval stage, with documents in the registry
SumInit ==
    \E dm \in SumRegistries :
        /\ documents = dm.documents
        /\ doc_hash_map = dm.doc_hash_map
        /\ op = [name |-> "init", arg |-> None]
        /\ ret = None
        /\ firstRet = EmptyMap
        /\ run = 1
        /\ pc = "retrieval_end"
        /\ events = <<>>
        /\ plan = None
        /\ tasks = <<>>
        /\ finished = <<>>
        /\ yielded = 0
        /\ doc_count = Len(dm.documents)
        /\ web_queue = <<>>
        /\ retrieved = {}
        /\ agent_events = <<>>
        /\ wire = Thinking
        /\ planner = None
        /\ summary = SummaryLocals

SumFrame ==
    UNCHANGED <<regvars, run, planner, plan, tasks, finished, yielded, doc_count, web_queue,
                retrieved, agent_events>>

\* summarize(user_query, doc_manager, session_id, max_docs) is entered: it
\* builds its prompt and awaits chat.completions.create
SummarizeCalled ==
    /\ pc = "summary"
    /\ Yield(<<>>, "summarizing")
    /\ summary' = SummaryLocals
    /\ SumFrame

\* chat.completions.create returns the stream, or raises
CompletionReturns(outcome) ==
    /\ pc = "summarizing"
    /\ IF outcome.raised THEN Yield(SummaryError, "done") ELSE Yield(<<>>, "streaming")
    /\ UNCHANGED summary
    /\ SumFrame

\* the stream gives a chunk
StreamChunk(chunk) ==
    /\ pc = "streaming"
    /\ summary.chunks < MaxChunks
    /\ LET r == on_chunk(summary, chunk) IN
        /\ summary' = r.locals
        /\ Yield(r.events, "streaming")
    /\ SumFrame

\* the stream raises while it is read
StreamRaises ==
    /\ pc = "streaming"
    /\ Yield(SummaryError, "done")
    /\ UNCHANGED summary
    /\ SumFrame

\* the stream is exhausted
StreamEnds ==
    /\ pc = "streaming"
    /\ Yield(<<>>, "tools")
    /\ UNCHANGED summary
    /\ SumFrame

\* the next collected tool call is gone through
ExecuteTool(outcome) ==
    /\ pc = "tools"
    /\ summary.executed < Len(summary.tool_calls)
    /\ summary' = execute_tool(summary, summary.tool_calls[summary.executed + 1], outcome)
    /\ Yield(<<>>, "tools")
    /\ SumFrame

\* after the tool calls: the fallback write, then summary_complete with the
\* whole text and the file path, and summarize and process() return
SummaryComplete(outcome) ==
    /\ pc = "tools"
    /\ summary.executed = Len(summary.tool_calls)
    /\ LET s == fallback_write(summary, outcome) IN
        /\ summary' = s
        /\ Yield(<<[type |-> "summary_complete", content |-> s.full_content,
                    file_path |-> s.file_path]>>, "done")
    /\ SumFrame

SumNext ==
    \/ PublishReferences
    \/ SummarizeCalled
    \/ \E outcome \in {Raise, Return("stream")} : CompletionReturns(outcome)
    \/ \E chunk \in StreamChunks : StreamChunk(chunk)
    \/ StreamRaises
    \/ StreamEnds
    \/ \E outcome \in WriteOutcomes : ExecuteTool(outcome)
    \/ \E outcome \in WriteOutcomes : SummaryComplete(outcome)
    \/ SendEnd

SumSpec == SumInit /\ [][SumNext]_vars

-----------------------------------------------------------------------------
(* HitSpec: the registry filled from the answers of the retrieval backend,  *)
(* hits without a score included, then sorted and read as process() does    *)

\* Python's None where a score is expected (the backend's JSON null),
\* written -1: the scores of the backend are not negative.
NoScore == -1

\* An item of the backend's answer: data[i] of knowledge_retrieval
BackendItem(text, id, doc_id, doc_name) ==
    [text |-> text, metadata |-> [_id |-> id, doc_id |-> doc_id, doc_name |-> doc_name]]

Scored(item, score) == [k \in DOMAIN item \cup {"score"} |-> IF k = "score" THEN score ELSE item[k]]

\* The answers: items with a score, an item without the score field, items
\* whose score is null; with a parent document and without
BackendItems ==
    { Scored(BackendItem("a", "k1", "A", "s1"), 2),
      BackendItem("c", "k3", "C", "s3"),
      Scored(BackendItem("d", "k4", "D", "s4"), NoScore),
      Scored(BackendItem("e", None, None, "s5"), NoScore),
      Scored(BackendItem("f", None, None, "s6"), 1) }

\* retrieve_knowledge: the result item made of an item of the answer
ResultItem(item, kb_id) ==
    [content |-> Get(item, "text", ""),
     source |-> Get(item.metadata, "doc_name", "Unknown"),
     score |-> Get(item, "score", 0),
     chunk_id |-> Get(item.metadata, "_id", None),
     doc_id |-> Get(item.metadata, "doc_id", None),
     doc_url |-> Get(item.metadata, "doc_url", None),
     knowledge_base_id |-> kb_id,
     knowledge_base_name |-> kb_id]

\* documents.sort(key=score, reverse=True) raises TypeError: every element
\* of a list of two or more is compared, and None is compared with nothing
sort_raises(docs) ==
    Len(docs) >= 2 /\ \E i \in 1..Len(docs) : ScoreOf(docs[i]) = NoScore

Orders(n) == {p \in [1..n -> 1..n] : \A i, j \in 1..n : i # j => p[i] # p[j]}

\* sort_documents on any scores: what the registry can be afterwards.  When
\* the sort raises, the handler logs and returns: the entries keep their
\* index fields and stand in an order the language does not define (a
\* list whose sort fails is left partially modified).
sort_documents_outcomes(dm) ==
    IF sort_raises(dm.documents)
    THEN {[documents |-> [i \in 1..Len(dm.documents) |-> dm.documents[p[i]]],
           doc_hash_map |-> dm.doc_hash_map] : p \in Orders(Len(dm.documents))}
    ELSE {sort_documents(dm)}

\* get_references raises TypeError: "current_score > max_score" for an entry
\* with a parent document whose score is None (the first of a group is
\* compared with itself), or the sort of two or more entries without parent
\* document of which one has the score None
get_references_raises(dm, max_docs) ==
    LET docs == DocsToProcess(dm.documents, max_docs)
        single == {i \in 1..Len(docs) : ~Truthy(DocIdOf(docs[i]))}
    IN  \/ \E i \in 1..Len(docs) : Truthy(DocIdOf(docs[i])) /\ ScoreOf(docs[i]) = NoScore
        \/ Cardinality(single) >= 2 /\ \E i \in single : ScoreOf(docs[i]) = NoScore

\* get_references on any scores: raises, or returns its list
get_references_outcome(dm, max_docs) ==
    IF get_references_raises(dm, max_docs) THEN [raised |-> TRUE, error |-> "TypeError"]
    ELSE Return(get_references(dm, max_docs))

\* _retrieve_kb_async: the hit is made a Document and added
AddHit(item) ==
    LET doc == KBDocuments(<<ResultItem(item, "kb1")>>)[1] IN
    /\ compute_hash(doc) \in DOMAIN doc_hash_map \/ Len(documents) < MaxDocs
    /\ LET r == add_document(Manager, doc) IN
        /\ documents' = r.documents
        /\ doc_hash_map' = r.doc_hash_map
        /\ ret' = r.index
    /\ op' = [name |-> "add_document", arg |-> doc]
    /\ UNCHANGED <<firstRet, pipevars>>

\* doc_manager.sort_documents(key="score", reverse=True)
SortHits ==
    /\ \E r \in sort_documents_outcomes(Manager) :
          /\ documents' = r.documents
          /\ doc_hash_map' = r.doc_hash_map
    /\ op' = [name |-> "sort_documents", arg |-> None]
    /\ ret' = None
    /\ UNCHANGED <<firstRet, pipevars>>

\* doc_manager.get_references(max_docs)
HitReferences(max_docs) ==
    /\ ret' = get_references_outcome(Manager, max_docs)
    /\ op' = [name |-> "get_references", arg |-> max_docs]
    /\ UNCHANGED <<documents, doc_hash_map, firstRet, pipevars>>

\* process() after the retrieval, with documents in the registry: it sorts,
\* takes the references and yields them; an exception ends in the handler
\* of process(), which yields an error event.
PublishHits ==
    /\ documents # <<>>
    /\ \E r \in sort_documents_outcomes(Manager) :
          LET references == get_references_outcome(r, MAX_DOCS_FOR_SUMMARY) IN
          /\ documents' = r.documents
          /\ doc_hash_map' = r.doc_hash_map
          /\ events' = IF references.raised THEN Uncaught(references.error)
                       ELSE <<[type |-> "references", references |-> references.result]>>
          /\ ret' = references
    /\ op' = [name |-> "process", arg |-> None]
    /\ UNCHANGED <<firstRet, run, pc, plan, tasks, finished, yielded, doc_count, web_queue,
                   retrieved, agent_events, wire, planner, summary>>

HitNext ==
    \/ \E item \in BackendItems : AddHit(item)
    \/ SortHits
    \/ \E max_docs \in {0, 1, MAX_DOCS_FOR_SUMMARY} : HitReferences(max_docs)
    \/ PublishHits

HitSpec == RegInit /\ [][HitNext]_vars

-----------------------------------------------------------------------------
(* The pipeline's properties, checked under Spec *)

Types(type) == {i \in 1..Len(events) : events[i].type = type}

Emitted(type) == Types(type) # {}

\* Every event of type b has an event of type a somewhere before it.
Before(a, b) == \A j \in Types(b) : \E i \in Types(a) : i < j

\* C7: while a request is served the registry holds only entries that the
\* request's own queries returned (so it is empty when the request starts),
\* and the total of retrieval_end counts exactly those entries.
C7_FreshRegistry ==
    /\ pc # "idle" =>
          \A j \in 1..Len(documents) : compute_hash(documents[j]) \in retrieved
    /\ \A i \in Types("retrieval_end") : events[i].total = Cardinality(retrieved)

AllQueriesEmpty ==
    /\ Emitted("query_end")
    /\ \A i \in Types("query_end") : events[i].success /\ events[i].doc_count = 0
    /\ \A i \in Types("web_search_query_end") :
          /\ Get(events[i].result, "success", FALSE)
          /\ Get(events[i].result, "count", 0) = 0

\* C9: a request whose queries all return success with zero hits ends with
\* one "no results" content event after retrieval_end and emits no
\* references, no other content and no summary_complete.
C9_ZeroResultShortCircuit ==
    (pc = "done" /\ AllQueriesEmpty) =>
        /\ Cardinality(Types("content")) = 1
        /\ events[Len(events)] = [type |-> "content", content |-> "no_results"]
        /\ Before("retrieval_end", "content")
        /\ ~Emitted("references")
        /\ ~Emitted("summary_complete")

\* C10: a finished request whose registry was not empty after retrieval has
\* emitted references, then one summary_complete, and no error event.
C10_SummaryComplete ==
    (pc = "done" /\ Emitted("references")) =>
        /\ Cardinality(Types("summary_complete")) = 1
        /\ Before("references", "summary_complete")
        /\ ~Emitted("error")

-----------------------------------------------------------------------------
(* The properties of the failure paths, of the retrieval tasks and of the    *)
(* wire stream, checked under Spec (C13 under LiveSpec)                      *)

WireTypes(event_type) == {i \in 1..Len(wire) : wire[i].event_type = event_type}

\* planning_agent.plan has returned for the request in flight
PlanSet == pc \notin {"idle", "planning"}

\* the plan has an item that lacks a key retrieve_with_plan_parallel reads
Malformed ==
    \E t \in 1..Len(Get(plan, "retrieval_plan", <<>>)) :
        ~(ItemKeys \subseteq DOMAIN plan.retrieval_plan[t])

\* generate_events ended in its except branch
Faulted ==
    /\ pc = "closed"
    /\ Len(wire) >= 2
    /\ wire[Len(wire) - 1].event_type = "STREAM_THINK"
    /\ wire[Len(wire) - 1].messages[1].content = "system error"

\* process() has received retrieval_complete from the retrieval agent
RetrievalDone ==
    \E i \in 1..Len(agent_events) : agent_events[i].type = "retrieval_complete"

\* C11: an exception that reaches the handler of process() (the KeyError of
\* a plan item without its keys, the TypeError of the summarize call) gives
\* one error event; an error event is the last event of the request, the
\* request has ended with it, and no request has two error events.
C11_OneErrorLast ==
    /\ Cardinality(Types("error")) <= 1
    /\ \A i \in Types("error") : i = Len(events) /\ pc \in {"done", "closed"}
    /\ (PlanSet /\ Malformed) => Emitted("error")
    /\ (pc \in {"done", "closed"} /\ Emitted("references")
        /\ MissingArguments(summarize_params, summarize_defaults,
                            call_positional, call_keywords) # {}) => Emitted("error")

\* C11's case: the creation of the retrieval tasks raised, the error event
\* was emitted and the request ended.
C11_Witness ==
    /\ pc = "done"
    /\ Malformed
    /\ events[Len(events)].type = "error"
    /\ events[Len(events)].error = "KeyError"

\* C12: a wire stream never holds two END messages, an END is the last
\* message of its stream, and every closed stream (after a normal end, after
\* an error event, after a fault of generate_events) has exactly one END.
C12_OneEndLast ==
    /\ Cardinality(WireTypes("END")) <= 1
    /\ \A i \in WireTypes("END") : i = Len(wire) /\ pc = "closed"
    /\ pc = "closed" => WireTypes("END") = {Len(wire)}

\* C12's case: generate_events itself raised (a query that is no str) and
\* the stream was closed by the except branch.
C12_Witness ==
    /\ Faulted
    /\ Emitted("query_end")
    /\ wire[Len(wire)].event_type = "END"

\* C13: when every awaited call returns or raises and the stream is read,
\* every request that has started gets its END.
C13_EventuallyEnd ==
    (pc \notin {"idle", "closed"}) ~> (pc = "closed" /\ wire[Len(wire)].event_type = "END")

\* C13's case: a request that went through retrieval tasks, the web search
\* and the summary call, and whose stream is closed.
C13_Witness ==
    /\ pc = "closed"
    /\ Emitted("kb_end")
    /\ Emitted("web_search_end")
    /\ Emitted("error")
    /\ wire[Len(wire)].event_type = "END"

\* the type of an event, and its query if it has one
Shape(e) == <<e.type, Get(e, "query", None)>>

Shapes(evs) == [i \in 1..Len(evs) |-> Shape(evs[i])]

\* the events of evs that carry task id t, in their order
TaskEvents(evs, t) == SelectSeq(evs, LAMBDA e : "task_id" \in DOMAIN e /\ e.task_id = t)

RECURSIVE QueryPairs(_)
QueryPairs(queries) ==
    IF queries = <<>> THEN <<>>
    ELSE <<<<"query_start", Head(queries)>>, <<"query_end", Head(queries)>>>>
         \o QueryPairs(Tail(queries))

\* what the claim expects of the task of a plan item
ExpectedShapes(plan_item) ==
    <<<<"kb_start", None>>>>
    \o QueryPairs(Take(plan_item.queries, max_queries_per_kb))
    \o <<<<"kb_end", None>>>>

IsPrefix(a, b) == Len(a) <= Len(b) /\ a = SubSeq(b, 1, Len(a))

\* the events of task t have been handed to process()
Yielded(t) == \E k \in 1..yielded : finished[k] = t

\* C14: in the output, the events of each task are kb_start, then
\* query_start and query_end of each of the first max_queries_per_kb queries
\* of its plan item in plan order, then kb_end: always a prefix of that, and
\* the whole of it once the task's events have been handed over (unless
\* generate_events stopped reading).
C14_TaskOrder ==
    \A t \in 1..Len(tasks) :
        LET seen == Shapes(TaskEvents(events, t))
            expected == ExpectedShapes(plan.retrieval_plan[t])
        IN  /\ IsPrefix(seen, expected)
            /\ (Yielded(t) /\ ~Faulted) => seen = expected

\* C14's case: a plan item with four queries, of which three ran, next to
\* nothing else, and the request is over.
C14_Witness ==
    /\ pc = "closed"
    /\ ~Faulted
    /\ Len(tasks) = 1
    /\ Len(plan.retrieval_plan[1].queries) = 4
    /\ Cardinality(Types("query_end")) = 3
    /\ Cardinality(Types("kb_end")) = 1

\* C15: the tasks produce kb_start (and their first query_start) when they
\* start, before any retrieval call has ended; if the coordinator yielded
\* whichever event is available first, every kb_start would be in the
\* output before every query_end.
C15_EventsAsAvailable ==
    \A i \in Types("kb_start") : \A j \in Types("query_end") : i < j

\* the query_end events of task t in the output
QueryEnds(t) == SelectSeq(TaskEvents(events, t), LAMBDA e : e.type = "query_end")

\* the identity keys of the hits an outcome brought
HitKeys(outcome) ==
    LET docs == KBDocuments(Collected(outcome))
    IN  {compute_hash(docs[i]) : i \in 1..Len(docs)}

\* C16: a query whose call raised has a query_end with success false and
\* doc_count 0, and the task goes on: every query of every task gets its
\* outcome and its query_end, every task reaches kb_end, the registry holds
\* every hit of every query that returned hits, and a closed stream ends
\* with END.
C16_QueryFaultTolerance ==
    /\ \A t \in 1..Len(tasks) : (Yielded(t) /\ ~Faulted) =>
          /\ Len(tasks[t].outcomes) = Len(tasks[t].queries)
          /\ Len(QueryEnds(t)) = Len(tasks[t].queries)
          /\ \A k \in 1..Len(tasks[t].outcomes) :
                tasks[t].outcomes[k].raised =>
                    /\ QueryEnds(t)[k].success = FALSE
                    /\ QueryEnds(t)[k].doc_count = 0
    /\ RetrievalDone =>
          \A t \in 1..Len(tasks) :
              /\ \E i \in Types("kb_end") : events[i].task_id = t
              /\ \A k \in 1..Len(tasks[t].outcomes) :
                    \A h \in HitKeys(tasks[t].outcomes[k]) :
                        \E j \in 1..Len(documents) : compute_hash(documents[j]) = h
    /\ pc = "closed" => wire[Len(wire)].event_type = "END"

\* C16's case: the first query of a task raised, its second query and the
\* sibling task brought hits, and the stream is closed.
C16_Witness ==
    /\ pc = "closed"
    /\ Len(tasks) = 2
    /\ Len(tasks[1].outcomes) = 2
    /\ tasks[1].outcomes[1].raised
    /\ Collected(tasks[1].outcomes[2]) # <<>>
    /\ Collected(tasks[2].outcomes[1]) # <<>>

Completes == {i \in 1..Len(agent_events) : agent_events[i].type = "retrieval_complete"}

\* C17: the retrieval agent yields at most one retrieval_complete, exactly
\* one once process() is past a retrieval whose tasks could be created (a
\* plan item without its keys raises before any task runs); it is the
\* agent's last event,
\* after the kb_end of every task, and the registry it carries has exactly
\* one entry for each identity key among the hits of the queries.
C17_OneRetrievalComplete ==
    /\ Cardinality(Completes) <= 1
    /\ (pc \in {"web_search", "web_await", "retrieval_end", "summary", "done"}
        /\ ~Malformed) => Cardinality(Completes) = 1
    /\ \A c \in Completes :
          /\ c = Len(agent_events)
          /\ \A t \in 1..Len(tasks) :
                \E i \in 1..(c - 1) :
                    agent_events[i].type = "kb_end" /\ agent_events[i].task_id = t
          /\ LET docs == agent_events[c].doc_manager.documents IN
                \A t \in 1..Len(tasks) : \A k \in 1..Len(tasks[t].outcomes) :
                    \A h \in HitKeys(tasks[t].outcomes[k]) :
                        Cardinality({j \in 1..Len(docs) : compute_hash(docs[j]) = h}) = 1

\* C17's case: two tasks whose calls both returned the chunk k1, the second
\* task ending before the first, and retrieval_complete received.
C17_Witness ==
    /\ Completes # {}
    /\ Len(tasks) = 2
    /\ finished = <<2, 1>>
    /\ HitKeys(tasks[1].outcomes[1]) \cap HitKeys(tasks[2].outcomes[1]) # {}

\* C18: a stream has at most one PLAN_DECLARED, every PLAN_CHANGE comes
\* after a PLAN_DECLARED, and a closed stream has exactly one PLAN_DECLARED.
C18_PlanDeclaredFirst ==
    /\ Cardinality(WireTypes("PLAN_DECLARED")) <= 1
    /\ \A j \in WireTypes("PLAN_CHANGE") : \E i \in WireTypes("PLAN_DECLARED") : i < j
    /\ pc = "closed" => Cardinality(WireTypes("PLAN_DECLARED")) = 1

DeclaredStages ==
    UNION { {wire[i].messages[k].stage_id : k \in 1..Len(wire[i].messages)} :
            i \in WireTypes("PLAN_DECLARED") }

ChangedStages == {wire[i].messages[1].stage_id : i \in WireTypes("PLAN_CHANGE")}

\* C19: once the plan is known, web_search_start is emitted only for a plan
\* with a web_search_plan, and for every such plan when the retrieval
\* completes; the web_search status change is on the wire exactly when
\* web_search_start was emitted; PLAN_DECLARED lists web_search exactly for
\* those plans; every stage of a PLAN_CHANGE is listed in PLAN_DECLARED.
C19_WebStageIffPlanned ==
    PlanSet =>
        /\ Emitted("web_search_start") => has_web_search
        /\ (has_web_search /\ RetrievalDone) => Emitted("web_search_start")
        /\ ("web_search" \in ChangedStages) <=> Emitted("web_search_start")
        /\ ("web_search" \in DeclaredStages) <=> has_web_search
        /\ ChangedStages \subseteq DeclaredStages

\* C19's case: a closed stream of a plan with a web_search_plan, whose
\* web_search stage was declared, started and completed.
C19_Witness ==
    /\ pc = "closed"
    /\ has_web_search
    /\ "web_search" \in DeclaredStages
    /\ \E i \in WireTypes("PLAN_CHANGE") :
          /\ wire[i].messages[1].stage_id = "web_search"
          /\ wire[i].messages[1].status = "COMPLETED"

Declares == WireTypes("INVOCATION_DECLARED")

Changes == WireTypes("INVOCATION_CHANGE")

InvocationId(i) == wire[i].context.invocation_id

Previous(i) ==
    LET before == {j \in (Declares \cup Changes) :
                      j < i /\ InvocationId(j) = InvocationId(i)}
    IN  IF before = {} THEN 0 ELSE CHOOSE j \in before : \A k \in before : k <= j

-----------------------------------------------------------------------------
(* The properties of generate_invocation_id and of PlanningAgent.plan,      *)
(* checked under FunSpec (C25 and C26 under Spec)                           *)

\* the two calls have the same source name and query and different task ids
OnlyTaskDiffers ==
    /\ op.arg[1].kb_name = op.arg[2].kb_name
    /\ op.arg[1].query = op.arg[2].query
    /\ op.arg[1].task_id # op.arg[2].task_id

HashedText(a) == a.kb_name \o "::" \o a.query \o "::" \o a.task_id

HasRecencyTerm(query) == \E k \in 1..Len(time_keywords) : Contains(query, time_keywords[k])

\* C24: with exactly one configured source plan() does not call the planner
\* and returns a plan whose retrieval_plan is that source with the raw query
\* as its only query; the plan has a web_search_plan exactly when the query
\* contains a recency term: none for "深度学习的基本原理", one for
\* "人工智能最新进展 2025".
C24_SingleSourcePlan ==
    (op.name = "plan" /\ Len(op.arg.knowledge_bases) = 1) =>
        LET kb == op.arg.knowledge_bases[1]
            user_query == op.arg.user_query
        IN  /\ ~ret.called
            /\ ~ret.raised
            /\ Len(ret.plan.retrieval_plan) = 1
            /\ ret.plan.retrieval_plan[1].knowledge_base_id = kb.id
            /\ ret.plan.retrieval_plan[1].knowledge_base_name = kb.name
            /\ ret.plan.retrieval_plan[1].queries = <<user_query>>
            /\ ("web_search_plan" \in DOMAIN ret.plan) <=> HasRecencyTerm(user_query)
            /\ user_query = "shendu xuexi de jiben yuanli" =>
                  "web_search_plan" \notin DOMAIN ret.plan
            /\ user_query = "rengong zhineng zuixin jinzhan 2025" =>
                  "web_search_plan" \in DOMAIN ret.plan

\* C24's case: one source, the query "人工智能最新进展 2025", a planner that
\* would have raised, and a plan with a web_search_plan.
C24_Witness ==
    /\ op.name = "plan"
    /\ Len(op.arg.knowledge_bases) = 1
    /\ op.arg.user_query = "rengong zhineng zuixin jinzhan 2025"
    /\ op.arg.response.raised
    /\ "web_search_plan" \in DOMAIN ret.plan

\* the planner call of the request in flight raised, or returned a text
\* that json.loads rejects
PlannerFailed == planner.raised \/ json_loads(planner.result).raised

\* C25: when the planner call raises or returns a text that is no JSON,
\* plan() returns a plan with one retrieval item per configured source, in
\* their order, each with the raw query as its only query, and without a
\* web_search_plan; process() gets the plan (no error event comes in place
\* of planning_end), emits retrieval_start and starts one task per source.
C25_FallbackPlan ==
    (PlanSet /\ PlannerFailed) =>
        /\ DOMAIN plan = {"analysis", "retrieval_plan"}
        /\ Len(plan.retrieval_plan) = Len(ConfiguredSources)
        /\ \A i \in 1..Len(ConfiguredSources) :
              /\ plan.retrieval_plan[i].knowledge_base_id = ConfiguredSources[i].id
              /\ plan.retrieval_plan[i].knowledge_base_name = ConfiguredSources[i].name
              /\ plan.retrieval_plan[i].queries = <<RequestQuery>>
        /\ events[2] = [type |-> "planning_end", plan |-> plan]
        /\ events[3].type = "retrieval_start"
        /\ Len(tasks) = Len(ConfiguredSources)

\* C25's case: the planner returned a text that is no JSON, and both tasks
\* of the fallback plan ran their query.
C25_Witness ==
    /\ PlanSet
    /\ ~planner.raised
    /\ json_loads(planner.result).raised
    /\ Cardinality(Types("query_end")) = 2
    /\ Cardinality(Types("kb_end")) = 2

\* C26: whatever the planner returned, the plan process() works with has a
\* retrieval_plan that is not empty, and when its items can be read at
\* least one retrieval task is started.
C26_NonEmptyRetrievalPlan ==
    PlanSet =>
        /\ Get(plan, "retrieval_plan", <<>>) # <<>>
        /\ ~Malformed => Len(tasks) >= 1

-----------------------------------------------------------------------------
(* Further properties of the registry: C28 and C29 under RegSpec, C30 under *)
(* Spec                                                                     *)

\* the item has no chunk identifier (None or the empty string)
NoChunkId(doc) == ~Truthy(doc.knowledge_id)

\* C28: when two items without chunk identifier are added, they get the
\* same position exactly when their contents are equal, and the registry
\* then holds one entry for them if the contents are equal and two if they
\* differ.
C28_HashFallback ==
    [][(op'.name = "add_documents" /\ NoChunkId(op'.arg[1]) /\ NoChunkId(op'.arg[2])) =>
        LET c1 == op'.arg[1].content
            c2 == op'.arg[2].content
            held == {i \in 1..Len(documents') : IdentityKey(documents'[i]) \in {c1, c2}}
        IN  /\ (ret'[1] = ret'[2]) <=> (c1 = c2)
            /\ Cardinality(held) = IF c1 = c2 THEN 1 ELSE 2]_regvars

\* C28's case: two items without chunk identifier, with the same content and
\* different source labels, were added to the empty registry and share one
\* entry.
C28_Witness ==
    /\ op.name = "add_documents"
    /\ NoChunkId(op.arg[1]) /\ NoChunkId(op.arg[2])
    /\ op.arg[1].content = op.arg[2].content
    /\ op.arg[1].source # op.arg[2].source
    /\ ret = <<1, 1>>
    /\ Len(documents) = 1

\* C29: doc_hash_map gives, for every stored entry, the entry's current
\* position, and an add_document of a stored item returns the position the
\* entry has now.
C29_IndexTracksPositions ==
    /\ \A i \in 1..Len(documents) : doc_hash_map[compute_hash(documents[i])] = i
    /\ op.name = "add_document" => ret = PosOf(documents, IdentityKey(op.arg))

\* the hits of the web queries of the request, as web_search returned them
WebHits ==
    UNION { {events[i].result.results[k] : k \in 1..Len(Collected(Return(events[i].result)))} :
            i \in Types("web_search_query_end") }

\* C30: for every hit a web query of the request returned, the registry
\* holds an entry whose content is the hit's title, a blank line and the
\* hit's 'content' text, and whose metadata has a score.
C30_WebHitContentAndScore ==
    \A hit \in WebHits :
        \E i \in 1..Len(documents) :
            /\ documents[i].content = hit.title \o "\n\n" \o hit.content
            /\ "score" \in DOMAIN documents[i].metadata

-----------------------------------------------------------------------------
(* The properties of the summary stage and of its translation, checked      *)
(* under SumSpec (C23 under Spec)                                           *)

\* a write_file call of this summary raised, or returned the text of an error
PersistenceFailed ==
    \E k \in 1..Len(summary.writes) :
        \/ summary.writes[k].outcome.raised
        \/ summary.writes[k].outcome.result = WriteErrorText

RECURSIVE TokensOf(_)
\* the content tokens of a sequence of events, joined in order
TokensOf(evs) ==
    IF evs = <<>> THEN ""
    ELSE (IF Head(evs).type = "content" THEN Head(evs).content ELSE "") \o TokensOf(Tail(evs))

\* C27: when saving the summary fails (write_file raises, or returns an
\* error), summarize still ends with exactly one summary_complete event that
\* carries the whole text accumulated from the content tokens, it yields no
\* error event, and the stream ends normally: the summary stage is completed
\* and END is the last message.
C27_PersistenceBestEffort ==
    (pc \in {"done", "closed"} /\ PersistenceFailed) =>
        /\ Cardinality(Types("summary_complete")) = 1
        /\ events[Len(events)].type = "summary_complete"
        /\ events[Len(events)].content = TokensOf(events)
        /\ events[Len(events)].content = summary.full_content
        /\ ~Emitted("error")
        /\ ~Faulted
        /\ wire[Len(wire) - (IF pc = "closed" THEN 1 ELSE 0)]
              = build_plan_change_status("summary", "COMPLETED")
        /\ pc = "closed" => /\ wire[Len(wire)] = build_end
                            /\ Cardinality(WireTypes("END")) = 1

\* a summary of several tokens whose fallback write raised, delivered and closed
C27_Witness ==
    /\ pc = "closed"
    /\ Len(summary.writes) = 1
    /\ summary.writes[1].outcome.raised
    /\ ~summary.write_file_called
    /\ Cardinality(Types("content")) >= 2
    /\ events[Len(events)].type = "summary_complete"
    /\ events[Len(events)].content = "x x"
    /\ events[Len(events)].file_path = ""

\* the ARTIFACT messages on the wire that declare artifact id
ArtifactDeclarations(id) ==
    {i \in WireTypes("ARTIFACT") : wire[i].messages[1].artifact_id = id}

\* the ARTIFACT_CHANGE messages on the wire for artifact id
ArtifactChanges(id) ==
    {i \in WireTypes("ARTIFACT_CHANGE") : wire[i].context.artifact_id = id}

IsChange(msg, id, content) ==
    /\ msg.event_type = "ARTIFACT_CHANGE"
    /\ msg.context.artifact_id = id
    /\ msg.messages[1].content = content

\* C22: on one stream each artifact id is declared by at most one ARTIFACT,
\* whose content is empty, and every ARTIFACT_CHANGE of that id comes after
\* its declaration.  The reference list's declaration is followed at once by
\* the ARTIFACT_CHANGE that carries the serialized references; the summary's
\* declaration is sent with the first content token only, just before that
\* token's ARTIFACT_CHANGE, and every content token gives one ARTIFACT_CHANGE.
C22_ArtifactDeclaredOnce ==
    /\ \A id \in {"references-001", "summary-content-001"} :
          /\ Cardinality(ArtifactDeclarations(id)) <= 1
          /\ \A i \in ArtifactDeclarations(id) : wire[i].messages[1].content = ""
          /\ \A j \in ArtifactChanges(id) : \E i \in ArtifactDeclarations(id) : i < j
    /\ \A i \in ArtifactDeclarations("references-001") :
          /\ i < Len(wire)
          /\ \E e \in Types("references") :
                IsChange(wire[i + 1], "references-001", json_dumps(events[e].references))
    /\ \A i \in ArtifactDeclarations("summary-content-001") :
          /\ i < Len(wire)
          /\ \E e \in Types("content") :
                /\ \A f \in Types("content") : e <= f
                /\ IsChange(wire[i + 1], "summary-content-001", events[e].content)
    /\ Emitted("references") => ArtifactDeclarations("references-001") # {}
    /\ Emitted("content") => ArtifactDeclarations("summary-content-001") # {}
    /\ Cardinality(ArtifactChanges("summary-content-001")) = Cardinality(Types("content"))
    /\ Cardinality(ArtifactChanges("references-001")) = Cardinality(Types("references"))

\* a stream with the reference list and a summary of three tokens
C22_Witness ==
    /\ Cardinality(Types("references")) = 1
    /\ Cardinality(Types("content")) = 3
    /\ Cardinality(ArtifactDeclarations("references-001")) = 1
    /\ Cardinality(ArtifactDeclarations("summary-content-001")) = 1
    /\ Cardinality(ArtifactChanges("summary-content-001")) = 3

\* C23: every event of process() becomes one or more wire messages, and the
\* messages of an earlier event precede those of a later one: while no branch
\* of the translator has raised, the wire is the thinking prefix followed by
\* the non-empty translations of the events in their order.
C23_EveryEventTranslated ==
    ~Faulted =>
        /\ \A i \in 1..Len(events) : OnEvent(events[i], Thinking).messages # <<>>
        /\ pc \notin {"idle", "closed"} => wire = generate_events(events, Thinking).wire

\* the part of C23 about the order alone
TranslatedInOrder ==
    (~Faulted /\ pc \notin {"idle", "closed"}) => wire = generate_events(events, Thinking).wire

-----------------------------------------------------------------------------
(* The properties of the registry's read operations, checked under RegSpec  *)

\* C32: get_context_for_llm(max_docs) gives, for every max_docs from 0 up,
\* the blocks of exactly the first min(max_docs, N) entries in registry
\* order, each labelled with its entry's position; none for an empty registry.
C32_ContextBlocks ==
    op.name = "get_context_for_llm" =>
        LET n == IF op.arg < Len(documents) THEN op.arg ELSE Len(documents) IN
        /\ Len(ret) = n
        /\ \A i \in 1..n :
              ret[i] = [index |-> i, source |-> documents[i].source,
                        content |-> documents[i].content]

\* the same for a max_docs of 1 or more
ContextBlocksFromOne ==
    (op.name = "get_context_for_llm" /\ op.arg >= 1) =>
        LET n == IF op.arg < Len(documents) THEN op.arg ELSE Len(documents) IN
        /\ Len(ret) = n
        /\ \A i \in 1..n :
              ret[i] = [index |-> i, source |-> documents[i].source,
                        content |-> documents[i].content]

HasChunkId(doc) == Truthy(doc.knowledge_id)

\* C38: add_document takes an item for an entry that is already stored (it
\* stores nothing) only when both carry the same chunk identifier, or
\* neither carries one and their contents are equal; an item with a chunk
\* identifier is never taken for an entry without one, nor the reverse.
C38_SameKindDedup ==
    [][(op'.name = "add_document" /\ Len(documents') = Len(documents)) =>
        \E i \in 1..Len(documents) :
            /\ compute_hash(documents[i]) = compute_hash(op'.arg)
            /\ \/ /\ HasChunkId(op'.arg) /\ HasChunkId(documents[i])
                  /\ documents[i].knowledge_id = op'.arg.knowledge_id
               \/ /\ ~HasChunkId(op'.arg) /\ ~HasChunkId(documents[i])
                  /\ documents[i].content = op'.arg.content]_regvars

\* the registry is as a sort leaves it
Sorted == documents = sort_documents(Manager).documents

\* reference ref is the one of entry doc: it has its source, and its chunk
\* (the only chunk of a group of one) has the entry's chunk identifier and
\* the preview of its content
Describes(ref, doc) ==
    /\ ref.source = doc.source
    /\ IF IsGroup(ref)
       THEN /\ Len(ref.chunks) = 1
            /\ ref.chunks[1].chunk_id = doc.knowledge_id
            /\ ref.chunks[1].content_preview = Preview(doc.content)
       ELSE /\ ref.chunk_id = doc.knowledge_id
            /\ ref.content_preview = Preview(doc.content)

\* C39: when the registry is sorted and no two of the entries that
\* get_references(max_docs) covers have the same parent-document identifier,
\* the reference with id k is the one of the entry at position k, the entry
\* whose block in get_context_for_llm(max_docs) is labelled k.
C39_ReferenceMatchesCitation ==
    (/\ op.name = "get_references"
     /\ Sorted
     /\ \A p \in Parents(Covered(op.arg)) : Cardinality(Members(Covered(op.arg), p)) = 1)
    => LET context == get_context_for_llm(Manager, op.arg) IN
       /\ Len(ret) = Len(context)
       /\ \A k \in 1..Len(ret) :
             /\ ret[k].id = k
             /\ context[k].index = k
             /\ Describes(ret[k], documents[k])

\* the stored items as they were handed to add_document, in the order seq
Unstored(seq) == [i \in 1..Len(seq) |-> [seq[i] EXCEPT !.index = 0]]

Reverse(seq) == [i \in 1..Len(seq) |-> seq[Len(seq) + 1 - i]]

\* the registry that holds the items of seq, added in that order and sorted
SortedFrom(seq) == sort_documents(add_documents(NewManager, Unstored(seq))).documents

\* C40: the position every entry has after the sort does not depend on the
\* order in which the retrieval tasks added the hits: the hits of the
\* registry added in the opposite order are sorted into the same positions.
C40_PositionsOrderFree ==
    \A k \in {IdentityKey(documents[i]) : i \in 1..Len(documents)} :
        PosOf(SortedFrom(documents), k) = PosOf(SortedFrom(Reverse(documents)), k)

\* the same for registries in which no two hits have equal scores
PositionsOrderFreeNoTies ==
    (\A i, j \in 1..Len(documents) : i # j => ScoreOf(documents[i]) # ScoreOf(documents[j])) =>
        \A k \in {IdentityKey(documents[i]) : i \in 1..Len(documents)} :
            PosOf(SortedFrom(documents), k) = PosOf(SortedFrom(Reverse(documents)), k)

\* the same when the covered entries all have a parent document or all have none
ReferenceMatchesCitationOneKind ==
    (/\ op.name = "get_references"
     /\ Sorted
     /\ \A p \in Parents(Covered(op.arg)) : Cardinality(Members(Covered(op.arg), p)) = 1
     /\ Orphans(Covered(op.arg)) \in {{}, 1..Len(Covered(op.arg))})
    => \A k \in 1..Len(ret) : ret[k].id = k /\ Describes(ret[k], documents[k])

-----------------------------------------------------------------------------
(* The stage statuses and the invocation ids on the wire, checked under Spec *)

StageIds == {"planning", "retrieval", "web_search", "summary"}

\* the PLAN_CHANGE messages on the wire that set stage to status
StatusChanges(stage, status) ==
    {i \in WireTypes("PLAN_CHANGE") :
        /\ wire[i].messages[1].stage_id = stage
        /\ wire[i].messages[1].status = status}

\* the messages on the wire that carry the summary document: its ARTIFACT
\* and ARTIFACT_CHANGE messages
SummaryDocument ==
    {i \in WireTypes("ARTIFACT") : wire[i].messages[1].artifact_id = "summary-content-001"}
    \cup {i \in WireTypes("ARTIFACT_CHANGE") :
             wire[i].context.artifact_id = "summary-content-001"}

\* C34: on a stream every stage is set RUNNING at most once and COMPLETED at
\* most once, a COMPLETED is preceded by the RUNNING of its stage, no RUNNING
\* follows a COMPLETED of its stage, and the summary stage is set COMPLETED
\* only when a summary_complete event was yielded, after every message of the
\* summary document and every STREAM_CONTENT.
C34_StatusMovesForward ==
    /\ \A stage \in StageIds :
          /\ Cardinality(StatusChanges(stage, "RUNNING")) <= 1
          /\ Cardinality(StatusChanges(stage, "COMPLETED")) <= 1
          /\ \A c \in StatusChanges(stage, "COMPLETED") :
                /\ \E r \in StatusChanges(stage, "RUNNING") : r < c
                /\ \A r \in StatusChanges(stage, "RUNNING") : r < c
    /\ \A c \in StatusChanges("summary", "COMPLETED") :
          /\ Emitted("summary_complete")
          /\ \A i \in SummaryDocument \cup WireTypes("STREAM_CONTENT") : i < c

\* C34's case: a closed stream on which planning, retrieval and web_search
\* went from RUNNING to COMPLETED and the summary stage was set RUNNING
C34_Witness ==
    /\ pc = "closed"
    /\ \A stage \in {"planning", "retrieval", "web_search"} :
          \E r \in StatusChanges(stage, "RUNNING") :
              \E c \in StatusChanges(stage, "COMPLETED") : r < c
    /\ StatusChanges("summary", "RUNNING") # {}

\* C35: when END is on the wire, every stage that was set RUNNING has been
\* set COMPLETED or FAILED after it.
C35_NoStageLeftRunning ==
    WireTypes("END") # {} =>
        \A stage \in StageIds :
            \A r \in StatusChanges(stage, "RUNNING") :
                \E c \in StatusChanges(stage, "COMPLETED") \cup StatusChanges(stage, "FAILED") :
                    r < c

\* C36: every ARTIFACT and ARTIFACT_CHANGE of the summary document comes
\* after the summary stage's RUNNING status change and before its COMPLETED one.
C36_SummaryDocumentWhileRunning ==
    \A i \in SummaryDocument :
        /\ \E r \in StatusChanges("summary", "RUNNING") : r < i
        /\ \A c \in StatusChanges("summary", "COMPLETED") : i < c

\* C37: on a stream no two INVOCATION_DECLARED messages carry the same
\* invocation_id.
C37_UniqueInvocationIds ==
    \A i, j \in Declares : i # j => InvocationId(i) # InvocationId(j)

-----------------------------------------------------------------------------
(* The registry on hits without a score, checked under HitSpec *)

\* the score a hit is to be ranked with: 0 for a hit without one
RankScore(doc) == IF ScoreOf(doc) = NoScore THEN 0 ELSE ScoreOf(doc)

\* the registry holds a hit whose score is None
HoldsScoreless == \E i \in 1..Len(documents) : ScoreOf(documents[i]) = NoScore

\* C31: with hits without a score in the registry, sort_documents leaves the
\* entries in non-increasing score order, a hit without score counted as 0,
\* with the positions 1..N in that order; get_references returns a list; and
\* process() yields the references, no error event.
C31_ScorelessHitsTotal ==
    /\ op.name \in {"sort_documents", "process"} =>
          /\ \A i \in 1..Len(documents) : documents[i].index = i
          /\ \A i, j \in 1..Len(documents) :
                i < j => RankScore(documents[i]) >= RankScore(documents[j])
    /\ op.name \in {"get_references", "process"} => ~ret.raised
    /\ ~Emitted("error")

\* the same for registries in which every hit has a number for its score
\* (a hit that came without the score field has 0)
NumericScoresTotal ==
    ~HoldsScoreless =>
        /\ op.name \in {"sort_documents", "process"} =>
              /\ \A i \in 1..Len(documents) : documents[i].index = i
              /\ \A i, j \in 1..Len(documents) :
                    i < j => ScoreOf(documents[i]) >= ScoreOf(documents[j])
        /\ op.name \in {"get_references", "process"} => ~ret.raised
        /\ op.name = "process" => Emitted("references")

====
